---------------------------- MODULE Spec2Model ----------------------------
(***************************************************************************)
(* Terrain3D: the region directory (Terrain3DStorage), its generated       *)
(* texture caches, and the brush editor (Terrain3DEditor), modelled from   *)
(* src/src/terrain_editor.cpp.                                             *)
(*                                                                         *)
(* World positions are integer Vector3 values with y = 0, written          *)
(* [x |-> _, z |-> _]; Vector2i values are [x |-> _, y |-> _].             *)
(* A Ref<Image> is modelled by the value of the image it refers to; the    *)
(* images handed to the setters are fresh objects.                         *)
(***************************************************************************)
EXTENDS Integers, Sequences, FiniteSets, TLC

VARIABLES
  build,              \* "debug" (DEBUG_ENABLED engine) or "release": fixed per run
  heap_byte,          \* the byte found in memory past the end of an image buffer
  crashed,            \* the process dereferenced a null Ref<Image>
  region_size,        \* Terrain3DStorage::region_size
  region_offsets,     \* Terrain3DStorage::region_offsets
  height_maps,        \* Terrain3DStorage::height_maps
  control_maps,       \* Terrain3DStorage::control_maps
  color_maps,         \* Terrain3DStorage::color_maps
  generated,          \* the Generated caches, by name
  created,            \* the caches given a new handle (Generated::create) by
                      \* the last call of operate()
  noise_enabled,      \* Terrain3DStorage::noise_enabled
  noise_blend_near,   \* Terrain3DStorage::noise_blend_near, a float
  noise_blend_far,    \* Terrain3DStorage::noise_blend_far, a float
  surfaces,           \* Terrain3DStorage::surfaces
  surfaces_enabled,   \* Terrain3DStorage::surfaces_enabled
  generated_albedo_textures, \* Terrain3DStorage::generated_albedo_textures
  generated_normal_textures, \* Terrain3DStorage::generated_normal_textures
  shader_code,        \* the code last set on Terrain3DStorage::shader
  shader_override,    \* Terrain3DStorage::shader_override: its code, or NoShader
  shader_override_enabled, \* Terrain3DStorage::shader_override_enabled
  material_shader,    \* the shader set on Terrain3DStorage::material
  shader_calls,       \* the calls of _generate_shader_code made by the last
                      \* call on the material: their state and their text
  golden,             \* one earlier call of _generate_shader_code, kept
  tool,               \* Terrain3DEditor::tool
  operation,          \* Terrain3DEditor::operation
  brush,              \* Terrain3DEditor::brush
  operation_position, \* Terrain3DEditor::operation_position
  operation_interval, \* Terrain3DEditor::operation_interval (squared distance)
  strokes,            \* number of _operate_map calls made so far
  last                \* the last call on the storage or of operate(): its
                      \* name, argument and result

material_vars == <<surfaces, surfaces_enabled, generated_albedo_textures,
                   generated_normal_textures, shader_code, shader_override,
                   shader_override_enabled, material_shader, shader_calls>>

vars == <<build, heap_byte, crashed, region_size, region_offsets, height_maps,
          control_maps, color_maps, generated, created, noise_enabled, noise_blend_near,
          noise_blend_far, material_vars, golden,
          tool, operation, brush, operation_position, operation_interval, strokes, last>>

editor_vars == <<tool, operation, brush, operation_position, operation_interval, strokes>>

-----------------------------------------------------------------------------
(* Program constants *)

REGION_MAP_SIZE == 16

TERRAIN_MAX_HEIGHT == 512

SIZE_64 == 64

SIZE_1024 == 1024

SIZE_2048 == 2048

(* Bounds of the model *)

MaxRegions == 3

MaxStrokes == 1
MaxDrawn == 2

MaxBlend == 3

MaxRowRegions == 18

MaxListed == 2
MaxSurfaces == 2

-----------------------------------------------------------------------------
(* Vectors *)

Vec2(x, y) == [x |-> x, y |-> y]

Pos(x, z) == [x |-> x, z |-> z]

ABS(n) == IF n < 0 THEN -n ELSE n

REGION_MAP_VSIZE == Vec2(REGION_MAP_SIZE, REGION_MAP_SIZE)

MapTypes == {"TYPE_HEIGHT", "TYPE_CONTROL", "TYPE_COLOR"}

-----------------------------------------------------------------------------
(* Images.  An image is [w, h, fill, px]: px holds the pixels written since *)
(* the last fill, keyed by their offset p_y * width + p_x in the buffer.    *)

NoImage == [w |-> 0, h |-> 0, fill |-> 0, px |-> [k \in {} |-> 0]]

Image_create_filled(w, h, fill) == [w |-> w, h |-> h, fill |-> fill, px |-> [k \in {} |-> 0]]

Image_is_valid(img) == img.w > 0

PutPx(px, k, v) == [c \in (DOMAIN px) \cup {k} |-> IF c = k THEN v ELSE px[c]]

\* Image::set_pixelv.  A DEBUG_ENABLED engine rejects a coordinate outside
\* the image (ERR_FAIL_INDEX); a release engine writes at p_y * width + p_x
\* whatever the coordinate, inside the buffer or past its end.
Image_set_pixelv(img, v, col, bld) ==
  IF v.x >= 0 /\ v.x < img.w /\ v.y >= 0 /\ v.y < img.h
    THEN [img EXCEPT !.px = PutPx(img.px, v.y * img.w + v.x, col)]
    ELSE IF bld = "debug"
      THEN img
      ELSE [img EXCEPT !.px = PutPx(img.px, v.y * img.w + v.x, col)]

\* Image::get_pixelv.  A DEBUG_ENABLED engine answers Color() (r = 0) for a
\* coordinate outside the image; a release engine reads the buffer at
\* p_y * width + p_x, and past its end it reads whatever the heap holds.
Image_get_pixelv(img, v, zero, garbage, bld) ==
  LET k == v.y * img.w + v.x
      inside == v.x >= 0 /\ v.x < img.w /\ v.y >= 0 /\ v.y < img.h
  IN  IF ~inside /\ bld = "debug" THEN zero
      ELSE IF k \in DOMAIN img.px THEN img.px[k]
      ELSE IF k >= 0 /\ k < img.w * img.h THEN img.fill
      ELSE garbage


-----------------------------------------------------------------------------
(* Colours.  A height pixel is [r]: r in units of 1 / HeightOne.  A control *)
(* pixel is [r, g, b]: r and g are surface indices (index / 255 in the      *)
(* image), b the blend factor in units of 1 / BlendOne.  A colour pixel is  *)
(* [r, g, b, a] in units of 1 / BlendOne.  A region-map pixel is [r, g] in  *)
(* bytes (FORMAT_RG8).                                                      *)

HeightOne == TERRAIN_MAX_HEIGHT * 8

BlendOne == TERRAIN_MAX_HEIGHT

COLOR_BLACK == [r |-> 0, g |-> 0]

\* COLOR[p_map_type]: the fill colour of a new tile
COLOR(type) ==
  CASE type = "TYPE_HEIGHT"  -> [r |-> 0]
    [] type = "TYPE_CONTROL" -> [r |-> 0, g |-> 0, b |-> 0]
    [] OTHER                 -> [r |-> BlendOne, g |-> BlendOne, b |-> BlendOne, a |-> BlendOne]

\* The colour Color(float(i + 1) / 255.0, 1.0, 0, 1) as FORMAT_RG8 stores it:
\* uint8_t(CLAMP(c * 255.0, 0, 255)) per channel.
RegionColor(i) == [r |-> IF i + 1 > 255 THEN 255 ELSE i + 1, g |-> 255]

\* int(pixel.r * 255.0) - 1 for a pixel read back from FORMAT_RG8
RegionIndexOf(col) == col.r - 1

-----------------------------------------------------------------------------
(* Arrays (0-based indices, as in the code) *)

At(arr, i) == arr[i + 1]

InRange(arr, i) == i >= 0 /\ i < Len(arr)

\* Array::remove_at: an index outside the array is an error and removes nothing
RemoveAt(arr, i) ==
  IF InRange(arr, i)
    THEN [k \in 1..(Len(arr) - 1) |-> IF k <= i THEN arr[k] ELSE arr[k + 1]]
    ELSE arr

SetAt(arr, i, v) == [arr EXCEPT ![i + 1] = v]

-----------------------------------------------------------------------------
(* Terrain3DStorage::Generated *)

GeneratedNames == {"height_maps", "control_maps", "color_maps", "region_map", "region_blend_map"}

\* A default-constructed Generated.  The field misused is history: create was
\* called on the cache while it was clean or held a handle.
Generated_new(d) ==
  [rid |-> FALSE, dirty |-> d, image |-> NoImage, layers |-> <<>>, misused |-> FALSE]

Generated_clear(g) ==
  [rid |-> FALSE, dirty |-> TRUE, image |-> NoImage, layers |-> <<>>, misused |-> g.misused]

\* Generated::create(const TypedArray<Image> &) without the test for an empty
\* list
Generated_create_layers_always(g, p_layers) ==
  [g EXCEPT !.rid = TRUE, !.dirty = FALSE, !.layers = p_layers,
            !.misused = @ \/ g.rid \/ ~g.dirty]

\* Generated::create(const TypedArray<Image> &): the texture holds the layers
\* as they are at the call
Generated_create_layers(g, p_layers) ==
  IF p_layers # <<>>
    THEN [g EXCEPT !.rid = TRUE, !.dirty = FALSE, !.layers = p_layers,
                   !.misused = @ \/ g.rid \/ ~g.dirty]
    ELSE Generated_clear([g EXCEPT !.misused = @ \/ g.rid \/ ~g.dirty])

\* Generated::create(const Ref<Image> &)
Generated_create_image(g, p_image) ==
  [g EXCEPT !.image = p_image, !.rid = TRUE, !.dirty = FALSE,
            !.misused = @ \/ g.rid \/ ~g.dirty]

-----------------------------------------------------------------------------
(* Terrain3DStorage.  S is the storage object: its fields, with the engine  *)
(* build it runs on.                                                        *)

Storage ==
  [build |-> build, heap_byte |-> heap_byte, region_size |-> region_size,
   region_offsets |-> region_offsets, height_maps |-> height_maps,
   control_maps |-> control_maps, color_maps |-> color_maps,
   generated |-> generated, created |-> created, noise_enabled |-> noise_enabled,
   noise_blend_near |-> noise_blend_near, noise_blend_far |-> noise_blend_far,
   surfaces |-> surfaces, surfaces_enabled |-> surfaces_enabled,
   generated_albedo_textures |-> generated_albedo_textures,
   generated_normal_textures |-> generated_normal_textures,
   shader_code |-> shader_code, shader_override |-> shader_override,
   shader_override_enabled |-> shader_override_enabled,
   material_shader |-> material_shader, shader_calls |-> shader_calls]

\* The offset rounded half away from zero, as round() would
_get_offset_from_round(S, p) ==
  LET rnd(v) == IF v >= 0 THEN (2 * v + S.region_size) \div (2 * S.region_size)
                          ELSE -((S.region_size - 2 * v) \div (2 * S.region_size))
  IN  Vec2(rnd(p.x), rnd(p.z))

\* floor(p.xz / region_size + 0.5), per axis
_get_offset_from(S, p) ==
  Vec2((2 * p.x + S.region_size) \div (2 * S.region_size),
       (2 * p.z + S.region_size) \div (2 * S.region_size))

get_region_count(S) == Len(S.region_offsets)

\* The loop of _update_regions over region_offsets[from .. size - 1]
RECURSIVE RegionMapPixels(_, _, _, _)
RegionMapPixels(img, offsets, i, bld) ==
  IF i >= Len(offsets) THEN img
  ELSE LET ofs == At(offsets, i)
           at == Vec2(ofs.x + REGION_MAP_SIZE \div 2, ofs.y + REGION_MAP_SIZE \div 2)
       IN  RegionMapPixels(Image_set_pixelv(img, at, RegionColor(i), bld), offsets, i + 1, bld)

\* The region blend image: the region map with r := g, then resized to
\* 512 x 512 (the interpolated pixels are not modelled: px keeps the source)
RegionBlendImage(region_map_img) ==
  [w |-> 512, h |-> 512, fill |-> region_map_img.fill,
   px |-> [k \in DOMAIN region_map_img.px |-> [r |-> region_map_img.px[k].g, g |-> region_map_img.px[k].g]]]

\* The RegionMap image _update_regions draws
RegionMapImage(S) ==
  RegionMapPixels(Image_create_filled(REGION_MAP_SIZE, REGION_MAP_SIZE, COLOR_BLACK),
                  S.region_offsets, 0, S.build)

\* _update_regions without the tests of is_dirty(): every cache is created
UpdatedGenerated_always(S, n) ==
  LET g == S.generated[n]
  IN  CASE n = "height_maps"  -> Generated_create_layers(g, S.height_maps)
        [] n = "control_maps" -> Generated_create_layers(g, S.control_maps)
        [] n = "color_maps"   -> Generated_create_layers(g, S.color_maps)
        [] n = "region_map"   -> Generated_create_image(g, RegionMapImage(S))
        [] OTHER -> IF S.noise_enabled
                      THEN Generated_create_image(g, RegionBlendImage(RegionMapImage(S)))
                      ELSE g

\* What _update_regions leaves in the cache called n: a dirty cache is rebuilt,
\* the region blend map only together with a dirty region map and with noise on
UpdatedGenerated(S, n) ==
  LET g == S.generated[n]
  IN  CASE n = "height_maps" ->
             IF g.dirty THEN Generated_create_layers(g, S.height_maps) ELSE g
        [] n = "control_maps" ->
             IF g.dirty THEN Generated_create_layers(g, S.control_maps) ELSE g
        [] n = "color_maps" ->
             IF g.dirty THEN Generated_create_layers(g, S.color_maps) ELSE g
        [] n = "region_map" ->
             IF g.dirty THEN Generated_create_image(g, RegionMapImage(S)) ELSE g
        [] OTHER ->
             IF S.generated["region_map"].dirty /\ S.noise_enabled
               THEN Generated_create_image(g, RegionBlendImage(RegionMapImage(S)))
               ELSE g

\* _update_regions calls create, with something to create, on the cache n
CreatesHandle(S, n) ==
  CASE n = "height_maps"  -> S.generated[n].dirty /\ S.height_maps # <<>>
    [] n = "control_maps" -> S.generated[n].dirty /\ S.control_maps # <<>>
    [] n = "color_maps"   -> S.generated[n].dirty /\ S.color_maps # <<>>
    [] n = "region_map"   -> S.generated[n].dirty
    [] OTHER              -> S.generated["region_map"].dirty /\ S.noise_enabled

_update_regions(S) ==
  [S EXCEPT !.generated = [n \in GeneratedNames |-> UpdatedGenerated(S, n)],
            !.created = @ \cup {n \in GeneratedNames : CreatesHandle(S, n)}]

get_region_index(S, p) ==
  LET uv_offset == _get_offset_from(S, p)
      img == S.generated["region_map"].image
      at == Vec2(uv_offset.x + REGION_MAP_SIZE \div 2, uv_offset.y + REGION_MAP_SIZE \div 2)
      hits == {i \in 0..(Len(S.region_offsets) - 1) : At(S.region_offsets, i) = uv_offset}
  IN  IF ABS(uv_offset.x) > REGION_MAP_SIZE \div 2 \/ ABS(uv_offset.y) > REGION_MAP_SIZE \div 2
        THEN -1
      ELSE IF Image_is_valid(img)
        THEN RegionIndexOf(Image_get_pixelv(img, at, [r |-> 0, g |-> 0],
                                            [r |-> S.heap_byte, g |-> 0], S.build))
      ELSE IF hits = {} THEN -1
      ELSE CHOOSE i \in hits : \A j \in hits : i <= j

has_region(S, p) == get_region_index(S, p) # -1

ClearRegionCaches(G) ==
  [n \in GeneratedNames |-> Generated_clear(G[n])]

\* Error add_region(Vector3): [S |-> the storage afterwards, err |-> OK or FAILED]
add_region(S, p) ==
  LET uv_offset == _get_offset_from(S, p)
      tile(type) == Image_create_filled(S.region_size, S.region_size, COLOR(type))
  IN  IF has_region(S, p) THEN [S |-> S, err |-> "FAILED"]
      ELSE IF ABS(uv_offset.x) > REGION_MAP_SIZE \div 2 \/ ABS(uv_offset.y) > REGION_MAP_SIZE \div 2
        THEN [S |-> S, err |-> "FAILED"]
      ELSE [S |-> _update_regions(
                    [S EXCEPT !.height_maps = Append(@, tile("TYPE_HEIGHT")),
                              !.control_maps = Append(@, tile("TYPE_CONTROL")),
                              !.color_maps = Append(@, tile("TYPE_COLOR")),
                              !.region_offsets = Append(@, uv_offset),
                              !.generated = ClearRegionCaches(@)]),
            err |-> "OK"]

\* remove_region without the guard that keeps the last region
remove_region_unguarded(S, p) ==
  LET index == get_region_index(S, p)
  IN  IF index = -1 THEN S
      ELSE _update_regions(
             [S EXCEPT !.region_offsets = RemoveAt(@, index),
                       !.height_maps = RemoveAt(@, index),
                       !.control_maps = RemoveAt(@, index),
                       !.color_maps = RemoveAt(@, index),
                       !.generated = ClearRegionCaches(@)])

remove_region(S, p) ==
  LET index == get_region_index(S, p)
  IN  IF get_region_count(S) = 1 THEN S
      ELSE IF index = -1 THEN S
      ELSE _update_regions(
             [S EXCEPT !.region_offsets = RemoveAt(@, index),
                       !.height_maps = RemoveAt(@, index),
                       !.control_maps = RemoveAt(@, index),
                       !.color_maps = RemoveAt(@, index),
                       !.generated = ClearRegionCaches(@)])

set_region_offsets(S, p_array) ==
  _update_regions(
    [S EXCEPT !.region_offsets = p_array,
              !.generated = [@ EXCEPT !["region_map"] = Generated_clear(@),
                                      !["region_blend_map"] = Generated_clear(@)]])

\* The list a map type names
MapsOf(S, type) ==
  CASE type = "TYPE_HEIGHT"  -> S.height_maps
    [] type = "TYPE_CONTROL" -> S.control_maps
    [] type = "TYPE_COLOR"   -> S.color_maps
    [] OTHER                 -> <<>>

WithMaps(S, type, maps) ==
  CASE type = "TYPE_HEIGHT"  -> [S EXCEPT !.height_maps = maps]
    [] type = "TYPE_CONTROL" -> [S EXCEPT !.control_maps = maps]
    [] type = "TYPE_COLOR"   -> [S EXCEPT !.color_maps = maps]
    [] OTHER                 -> S

set_map_region(S, type, p_region_index, p_image) ==
  IF type \in MapTypes /\ InRange(MapsOf(S, type), p_region_index)
    THEN WithMaps(S, type, SetAt(MapsOf(S, type), p_region_index, p_image))
    ELSE S

\* Ref<Image> get_map_region: NoImage is the null Ref
get_map_region(S, type, p_region_index) ==
  IF type \in MapTypes /\ InRange(MapsOf(S, type), p_region_index)
    THEN At(MapsOf(S, type), p_region_index)
    ELSE NoImage

\* force_update_maps without the switch on the map type
force_update_maps_all(S, type) ==
  _update_regions([S EXCEPT !.generated["height_maps"] = Generated_clear(@),
                            !.generated["control_maps"] = Generated_clear(@),
                            !.generated["color_maps"] = Generated_clear(@)])

force_update_maps(S, type) ==
  LET G == S.generated
      cleared ==
        CASE type = "TYPE_HEIGHT"  -> [G EXCEPT !["height_maps"] = Generated_clear(@)]
          [] type = "TYPE_CONTROL" -> [G EXCEPT !["control_maps"] = Generated_clear(@)]
          [] type = "TYPE_COLOR"   -> [G EXCEPT !["color_maps"] = Generated_clear(@)]
          [] OTHER -> [G EXCEPT !["height_maps"] = Generated_clear(@),
                                !["control_maps"] = Generated_clear(@),
                                !["color_maps"] = Generated_clear(@)]
  IN  _update_regions([S EXCEPT !.generated = cleared])

set_height_maps(S, p_maps) == force_update_maps([S EXCEPT !.height_maps = p_maps], "TYPE_HEIGHT")

set_control_maps(S, p_maps) == force_update_maps([S EXCEPT !.control_maps = p_maps], "TYPE_CONTROL")

set_color_maps(S, p_maps) == force_update_maps([S EXCEPT !.color_maps = p_maps], "TYPE_COLOR")

set_maps(S, type, p_maps) ==
  CASE type = "TYPE_HEIGHT"  -> set_height_maps(S, p_maps)
    [] type = "TYPE_CONTROL" -> set_control_maps(S, p_maps)
    [] type = "TYPE_COLOR"   -> set_color_maps(S, p_maps)
    [] OTHER                 -> S

\* set_region_size: a size outside [SIZE_64, SIZE_2048] is refused
set_region_size(S, p_size) ==
  IF p_size < SIZE_64 \/ p_size > SIZE_2048 THEN S
  ELSE [S EXCEPT !.region_size = p_size]

-----------------------------------------------------------------------------
(* The material: surfaces, their texture arrays, and the shader.  A        *)
(* Ref<Texture2D> is modelled by the size of the texture, a shader by its   *)
(* code, and the code by the sequence of the blocks of text appended.       *)

NoTexture == [w |-> 0, h |-> 0]

Texture_is_valid(t) == t.w > 0

\* A null Ref<Terrain3DSurface>
NoSurface == [null |-> TRUE, albedo |-> NoTexture, normal |-> NoTexture]

Surface(alb_tex, nor_tex) == [null |-> FALSE, albedo |-> alb_tex, normal |-> nor_tex]

NoShader == <<>>

get_surface_count(S) == Len(S.surfaces)

\* The text without the conditions on the flags
_generate_shader_code_sized(S) ==
  <<"shader_type", "uniforms", S.region_size, "region_uniforms", "normal_packing",
    "get_region", "get_height", "vertex", "fragment", "checker_albedo">>

_generate_shader_code(S) ==
  <<"shader_type", "uniforms", "region_uniforms">>
  \o (IF S.surfaces_enabled THEN <<"surface_uniforms">> ELSE <<>>)
  \o (IF S.noise_enabled THEN <<"noise_uniforms", "hashv2", "noise2D">> ELSE <<>>)
  \o <<"normal_packing", "get_region", "get_height">>
  \o (IF S.noise_enabled THEN <<"get_height_noise">> ELSE <<>>)
  \o <<"get_height_end">>
  \o (IF S.surfaces_enabled THEN <<"blend_functions", "get_material">> ELSE <<>>)
  \o <<"vertex", "fragment">>
  \o (IF S.surfaces_enabled THEN <<"surface_albedo">> ELSE <<"checker_albedo">>)
  \o <<"fragment_end">>

\* A call of _generate_shader_code in the state S that returned code
ShaderCall(S, code) ==
  [surfaces_enabled |-> S.surfaces_enabled, noise_enabled |-> S.noise_enabled,
   override_enabled |-> S.shader_override_enabled,
   surface_count |-> Len(S.surfaces), region_count |-> Len(S.region_offsets),
   code |-> code]

\* The fields the constructor finds
Constructed ==
  [region_size |-> SIZE_1024, region_offsets |-> <<>>, surfaces |-> <<>>,
   surfaces_enabled |-> FALSE, noise_enabled |-> FALSE, shader_override_enabled |-> FALSE]

_update_material(S) ==
  IF S.shader_override_enabled /\ S.shader_override # NoShader
    THEN [S EXCEPT !.material_shader = "shader_override"]
    ELSE [S EXCEPT !.shader_code = _generate_shader_code(S),
                   !.material_shader = "shader",
                   !.shader_calls = @ \cup {ShaderCall(S, _generate_shader_code(S))}]

set_shader_override(S, p_shader) ==
  _update_material([S EXCEPT !.shader_override = p_shader])

\* enable_shader_override once shader_override_enabled is assigned
EnabledShaderOverride(S) ==
  IF S.shader_override_enabled /\ S.shader_override = NoShader
    THEN set_shader_override(
           [S EXCEPT !.shader_calls = @ \cup {ShaderCall(S, _generate_shader_code(S))}],
           _generate_shader_code(S))
    ELSE _update_material(S)

enable_shader_override(S, p_enabled) ==
  EnabledShaderOverride([S EXCEPT !.shader_override_enabled = p_enabled])

\* set_noise_enabled once the material is updated
NoiseRegionsUpdated(S) ==
  IF S.noise_enabled
    THEN _update_regions([S EXCEPT !.generated["region_map"] = Generated_clear(@),
                                   !.generated["region_blend_map"] = Generated_clear(@)])
    ELSE S

set_noise_enabled(S, p_enabled) ==
  NoiseRegionsUpdated(_update_material([S EXCEPT !.noise_enabled = p_enabled]))

\* A float: a number, here in halves, or NaN.  No comparison with NaN is true.
Float(v) == [nan |-> FALSE, v |-> v]

NaN == [nan |-> TRUE, v |-> 0]

Float_gt(a, b) == ~a.nan /\ ~b.nan /\ a.v > b.v

Float_lt(a, b) == ~a.nan /\ ~b.nan /\ a.v < b.v

\* A setter answers [S, nested]: the storage and the number of setter calls
\* made inside it
NestedCall(r) == [r EXCEPT !.nested = @ + 1]

\* set_noise_blend_near without the test against noise_blend_far
set_noise_blend_near_unchecked(S, p_near) ==
  [S |-> [S EXCEPT !.noise_blend_near = p_near], nested |-> 0]

RECURSIVE set_noise_blend_near(_, _), set_noise_blend_far(_, _)

set_noise_blend_near(S, p_near) ==
  IF Float_gt(p_near, S.noise_blend_far)
    THEN NestedCall(set_noise_blend_far([S EXCEPT !.noise_blend_near = p_near], p_near))
    ELSE [S |-> [S EXCEPT !.noise_blend_near = p_near], nested |-> 0]

set_noise_blend_far(S, p_far) ==
  IF Float_lt(p_far, S.noise_blend_near)
    THEN NestedCall(set_noise_blend_near([S EXCEPT !.noise_blend_far = p_far], p_far))
    ELSE [S |-> [S EXCEPT !.noise_blend_far = p_far], nested |-> 0]

\* The sizes of the valid textures of one kind ("albedo" or "normal")
TextureSizes(S, kind) ==
  {S.surfaces[i][kind] : i \in {j \in 1..Len(S.surfaces) :
      ~S.surfaces[j].null /\ Texture_is_valid(S.surfaces[j][kind])}}

\* The ERR_FAIL_COND_MSG of the size loop fires
SizeMismatch(S) ==
  \/ Cardinality(TextureSizes(S, "albedo")) > 1
  \/ Cardinality(TextureSizes(S, "normal")) > 1

\* albedo_size or normal_size after the size loop, all sizes being equal
FoundSize(S, kind) ==
  IF TextureSizes(S, kind) = {} THEN NoTexture ELSE CHOOSE t \in TextureSizes(S, kind) : TRUE

\* The size after the substitution of the other kind's size for (0, 0)
ArraySize(S, kind, other) ==
  IF FoundSize(S, kind) = NoTexture THEN FoundSize(S, other) ELSE FoundSize(S, kind)

\* The image of a surface in a texture array: the texture's, or an empty one
LayerImage(surface, kind, size) ==
  IF Texture_is_valid(surface[kind])
    THEN [w |-> surface[kind].w, h |-> surface[kind].h, empty |-> FALSE]
    ELSE [w |-> size.w, h |-> size.h, empty |-> TRUE]

RECURSIVE TextureArray(_, _, _)
TextureArray(list, kind, size) ==
  IF list = <<>> THEN <<>>
  ELSE (IF Head(list).null THEN <<>> ELSE <<LayerImage(Head(list), kind, size)>>)
       \o TextureArray(Tail(list), kind, size)

\* The array a Generated is created from: empty when nothing is created
ArrayToCreate(S, g, kind, size) ==
  IF g.dirty /\ size # NoTexture THEN TextureArray(S.surfaces, kind, size) ELSE <<>>

CreatedArray(g, array) == IF array # <<>> THEN Generated_create_layers(g, array) ELSE g

\* The end of the texture branch: _update_material when the flag changed
SurfaceMaterialUpdated(S, was_surfaces_enabled) ==
  IF was_surfaces_enabled # S.surfaces_enabled THEN _update_material(S) ELSE S

\* The texture branch of _update_surface_data after the size loop
SurfaceArraysCreated(S, was_surfaces_enabled, albedo_array, normal_array) ==
  SurfaceMaterialUpdated(
    [S EXCEPT !.generated_albedo_textures = CreatedArray(@, albedo_array),
              !.surfaces_enabled = (albedo_array # <<>>),
              !.generated_normal_textures = CreatedArray(@, normal_array)],
    was_surfaces_enabled)

\* The values pushed by the p_update_values branch are not kept in the state
_update_surface_data(S, p_update_textures, p_update_values) ==
  IF ~p_update_textures THEN S
  ELSE IF SizeMismatch(S) THEN [S EXCEPT !.surfaces_enabled = FALSE]
  ELSE SurfaceArraysCreated(
         [S EXCEPT !.surfaces_enabled = FALSE], S.surfaces_enabled,
         ArrayToCreate(S, S.generated_albedo_textures, "albedo", ArraySize(S, "albedo", "normal")),
         ArrayToCreate(S, S.generated_normal_textures, "normal", ArraySize(S, "normal", "albedo")))

ClearSurfaceArrays(S) ==
  [S EXCEPT !.generated_albedo_textures = Generated_clear(@),
            !.generated_normal_textures = Generated_clear(@)]

update_surface_textures(S) == _update_surface_data(ClearSurfaceArrays(S), TRUE, FALSE)

update_surface_values(S) == _update_surface_data(S, FALSE, TRUE)

_update_surfaces(S) == _update_surface_data(ClearSurfaceArrays(S), TRUE, TRUE)

\* set_surface: [S, crashed] afterwards.  Removing a surface disconnects the
\* signals of surfaces[p_index], which must not be null.
set_surface(S, p_material, p_index) ==
  IF p_index < get_surface_count(S)
    THEN IF p_material.null
      THEN IF At(S.surfaces, p_index).null
        THEN [S |-> S, crashed |-> TRUE]
        ELSE [S |-> _update_surfaces([S EXCEPT !.surfaces = RemoveAt(@, p_index)]), crashed |-> FALSE]
      ELSE [S |-> _update_surfaces([S EXCEPT !.surfaces = SetAt(@, p_index, p_material)]), crashed |-> FALSE]
    ELSE [S |-> _update_surfaces([S EXCEPT !.surfaces = Append(@, p_material)]), crashed |-> FALSE]

set_surfaces(S, p_surfaces) == _update_surfaces([S EXCEPT !.surfaces = p_surfaces])

\* Terrain3DSurface::set_albedo_texture or set_normal_texture on the surface
\* at p_index, which emits texture_changed: update_surface_textures runs
surface_texture_changed(S, p_index, kind, p_texture) ==
  update_surface_textures([S EXCEPT !.surfaces = SetAt(@, p_index, [At(@, p_index) EXCEPT ![kind] = p_texture])])


-----------------------------------------------------------------------------
(* Terrain3DEditor.  Brush fields opacity and the falloff image's pixels    *)
(* are in units of 1 / BlendOne; height is in world units; gamma is an      *)
(* integer exponent; rot is the stroke rotation in quarter turns.           *)

Tools == {"REGION", "HEIGHT", "TEXTURE", "COLOR"}

Operations == {"ADD", "SUBTRACT", "MULTIPLY", "REPLACE"}

\* Brush::set_data
Brush_set_data(p_data) ==
  [size |-> p_data.size, index |-> p_data.index, opacity |-> p_data.opacity,
   gamma |-> p_data.gamma, height |-> p_data.height, jitter |-> p_data.jitter,
   image |-> p_data.image, img_size |-> Vec2(p_data.image.w, p_data.image.h),
   align_to_view |-> p_data.align_with_view, auto_regions |-> p_data.automatic_regions]

_is_in_bounds(p_position, p_max_position) ==
  /\ p_position.x >= 0 /\ p_position.y >= 0
  /\ p_position.x < p_max_position.x /\ p_position.y < p_max_position.y

\* Vector2i(_get_uv_position(p, region_size) * region_size): for an integer
\* position and an even region size frac(p / size + 0.5) * size is exact
MapPixelPosition(p, p_region_size) ==
  Vec2((p.x + p_region_size \div 2) % p_region_size,
       (p.z + p_region_size \div 2) % p_region_size)

\* (uv - 0.5).rotated(quarter turns), as numerators over 2 * s
RotatedNumerator(x, y, s, rot) ==
  LET cx == 2 * x - s
      cy == 2 * y - s
  IN  CASE rot % 4 = 0 -> Vec2(cx, cy)
        [] rot % 4 = 1 -> Vec2(-cy, cx)
        [] rot % 4 = 2 -> Vec2(-cx, -cy)
        [] OTHER       -> Vec2(cy, -cx)

\* Vector2i(_rotate_uv(Vector2(x, y) / s, rot) * img_size): the rotated uv is
\* clamped to [0, 1] before it is scaled
BrushPixelPosition(x, y, s, rot, is) ==
  LET n == RotatedNumerator(x, y, s, rot)
      clamp(v) == IF v < 0 THEN 0 ELSE IF v > 2 * s THEN 2 * s ELSE v
  IN  Vec2((clamp(n.x + s) * is.x) \div (2 * s), (clamp(n.y + s) * is.y) \div (2 * s))

\* Math::pow(alpha, g) for an integer exponent g >= 0, alpha in 1 / BlendOne
RECURSIVE PowAlpha(_, _)
PowAlpha(a, g) == IF g <= 0 THEN BlendOne ELSE (a * PowAlpha(a, g - 1)) \div BlendOne

CLAMP(v, lo, hi) == IF v < lo THEN lo ELSE IF v > hi THEN hi ELSE v

\* The height branch without the final CLAMP
HeightDest_unclamped(op, srcf, br, alpha) ==
  LET h == (br.height * HeightOne) \div TERRAIN_MAX_HEIGHT
      hao == (((h * alpha) \div BlendOne) * br.opacity) \div BlendOne
  IN  [r |-> CASE op = "ADD"      -> srcf + hao
               [] op = "SUBTRACT" -> srcf - hao
               [] op = "MULTIPLY" -> srcf + (srcf * hao) \div HeightOne
               [] op = "REPLACE"  -> srcf + ((h - srcf) * alpha) \div BlendOne
               [] OTHER           -> srcf]

\* The height branch of _operate_map: the new pixel, in 1 / HeightOne
HeightDest(op, srcf, br, alpha) ==
  LET h == (br.height * HeightOne) \div TERRAIN_MAX_HEIGHT
      hao == (((h * alpha) \div BlendOne) * br.opacity) \div BlendOne
      destf ==
        CASE op = "ADD"      -> srcf + hao
          [] op = "SUBTRACT" -> srcf - hao
          [] op = "MULTIPLY" -> srcf + (srcf * hao) \div HeightOne
          [] op = "REPLACE"  -> srcf + ((h - srcf) * alpha) \div BlendOne
          [] OTHER           -> srcf
  IN  [r |-> CLAMP(destf, 0, HeightOne)]

\* The control branch without the test for the base index under ADD
ControlDest_self_overlay(op, src, br, alpha) ==
  LET alpha_clip == IF 10 * alpha < BlendOne THEN 0 ELSE 1
      lerp01(a, b) == IF alpha_clip = 0 THEN a ELSE b
  IN  CASE op = "ADD" ->
             [src EXCEPT !.g = lerp01(src.g, br.index),
                         !.b = lerp01(src.b, CLAMP(src.b + (br.opacity * alpha) \div BlendOne, 0, BlendOne))]
        [] op = "REPLACE" ->
             [src EXCEPT !.r = lerp01(src.r, br.index), !.b = lerp01(src.b, 0)]
        [] OTHER -> src

\* The control branch of _operate_map
ControlDest(op, src, br, alpha) ==
  LET alpha_clip == IF 10 * alpha < BlendOne THEN 0 ELSE 1
      index_base == src.r
      index_overlay == src.g
      lerp01(a, b) == IF alpha_clip = 0 THEN a ELSE b
  IN  CASE op = "ADD" ->
             LET dest_index == lerp01(index_overlay, br.index)
             IN  IF dest_index = index_base
                   THEN [src EXCEPT !.b = lerp01(src.b, 0)]
                   ELSE [src EXCEPT !.g = dest_index,
                                    !.b = lerp01(src.b, CLAMP(src.b + (br.opacity * alpha) \div BlendOne, 0, BlendOne))]
        [] op = "REPLACE" ->
             [src EXCEPT !.r = lerp01(index_base, br.index), !.b = lerp01(src.b, 0)]
        [] OTHER -> src

\* Color() as each map type reads it, with r replaced by what the heap holds
ZeroColor(type, r) ==
  CASE type = "TYPE_HEIGHT"  -> [r |-> r]
    [] type = "TYPE_CONTROL" -> [r |-> r, g |-> 0, b |-> 0]
    [] OTHER                 -> [r |-> r, g |-> 0, b |-> 0, a |-> BlendOne]

\* One footprint cell of _operate_map, from the bounds checks on.  S1 is the
\* storage, new_region_index the region of the cell, map_slot the place in
\* the tile list of the image the local map refers to and map_ok whether map
\* holds an image.  The result is [S, region_index, map_slot, map_ok,
\* crashed]: the storage, the locals region_index and map, and whether a null
\* Ref was dereferenced.
OperateCellWrite(S1, type, op, br, new_region_index, map_slot, map_ok, map_pixel_position, brush_pixel_position) ==
  LET alpha == PowAlpha(Image_get_pixelv(br.image, brush_pixel_position, 0, 0, S1.build), br.gamma)
      map == get_map_region(S1, type, map_slot)
      src == Image_get_pixelv(map, map_pixel_position, ZeroColor(type, 0),
                              ZeroColor(type, S1.heap_byte), S1.build)
      dest == CASE type = "TYPE_HEIGHT"  -> HeightDest(op, src.r, br, alpha)
                [] type = "TYPE_CONTROL" -> ControlDest(op, src, br, alpha)
                [] OTHER                 -> src
      E1 == [S |-> S1, region_index |-> new_region_index, map_slot |-> map_slot,
             map_ok |-> map_ok, crashed |-> FALSE]
  IN  IF ~_is_in_bounds(map_pixel_position, Vec2(S1.region_size, S1.region_size)) THEN E1
      ELSE IF ~_is_in_bounds(brush_pixel_position, br.img_size) THEN E1
      ELSE IF ~map_ok THEN [E1 EXCEPT !.crashed = TRUE]
      ELSE [E1 EXCEPT !.S = WithMaps(S1, type,
                                     SetAt(MapsOf(S1, type), map_slot,
                                           Image_set_pixelv(map, map_pixel_position, dest, S1.build)))]

\* The cell once its region index is known: map is fetched again only when
\* the index differs from the one of the cell before
OperateCellIn(E, S1, type, op, br, rot, x, y, brush_global_position, new_region_index) ==
  OperateCellWrite(S1, type, op, br, new_region_index,
                   IF new_region_index # E.region_index THEN new_region_index ELSE E.map_slot,
                   IF new_region_index # E.region_index
                     THEN Image_is_valid(get_map_region(S1, type, new_region_index))
                     ELSE E.map_ok,
                   MapPixelPosition(brush_global_position, S1.region_size),
                   BrushPixelPosition(x, y, br.size, rot, br.img_size))

\* The cell after add_region answered added: a failure skips the cell
OperateCellAdded(E, added, type, op, br, rot, x, y, brush_global_position) ==
  IF added.err # "OK" THEN [E EXCEPT !.S = added.S]
  ELSE OperateCellIn(E, added.S, type, op, br, rot, x, y, brush_global_position,
                     get_region_index(added.S, brush_global_position))

\* The cell after get_region_index answered idx: without a region the cell is
\* skipped, unless the brush creates regions
OperateCellAt(E, idx, type, op, br, rot, x, y, brush_global_position) ==
  IF idx # -1
    THEN OperateCellIn(E, E.S, type, op, br, rot, x, y, brush_global_position, idx)
    ELSE IF ~br.auto_regions THEN E
    ELSE OperateCellAdded(E, add_region(E.S, brush_global_position),
                          type, op, br, rot, x, y, brush_global_position)

\* One footprint cell whose world position is not moved back by half the
\* brush size
OperateCell_uncentred(E, type, op, br, p, rot, x, y) ==
  OperateCellAt(E, get_region_index(E.S, Pos(p.x + x, p.z + y)),
                type, op, br, rot, x, y, Pos(p.x + x, p.z + y))

\* One footprint cell (x, y) of _operate_map
OperateCell(E, type, op, br, p, rot, x, y) ==
  OperateCellAt(E, get_region_index(E.S, Pos(p.x + x - br.size \div 2, p.z + y - br.size \div 2)),
                type, op, br, rot, x, y,
                Pos(p.x + x - br.size \div 2, p.z + y - br.size \div 2))

\* The footprint loop: cells k = x * s + y, from k on
RECURSIVE OperateCells(_, _, _, _, _, _, _)
OperateCells(E, type, op, br, p, rot, k) ==
  IF E.crashed \/ k >= br.size * br.size THEN E
  ELSE OperateCells(OperateCell(E, type, op, br, p, rot, k \div br.size, k % br.size),
                    type, op, br, p, rot, k + 1)

\* The end of _operate_map: the caches of the map type are rebuilt
OperateMapEnd(E, type) ==
  IF E.crashed THEN [S |-> E.S, crashed |-> TRUE]
  ELSE [S |-> force_update_maps(E.S, type), crashed |-> FALSE]

\* The footprint loop of _operate_map when the centre has region region_index
OperateMapFrom(S, region_index, type, op, br, p, rot) ==
  OperateMapEnd(OperateCells([S |-> S, region_index |-> region_index,
                              map_slot |-> region_index,
                              map_ok |-> Image_is_valid(get_map_region(S, type, region_index)),
                              crashed |-> FALSE],
                             type, op, br, p, rot, 0),
                type)

\* _operate_map without the early return for a centre that has no region
_operate_map_any_centre(S, type, op, br, p, rot) ==
  OperateMapFrom(S, get_region_index(S, p), type, op, br, p, rot)

\* _operate_map: [S, crashed] afterwards
_operate_map(S, type, op, br, p, rot) ==
  IF get_region_index(S, p) = -1 THEN [S |-> S, crashed |-> FALSE]
  ELSE OperateMapFrom(S, get_region_index(S, p), type, op, br, p, rot)

\* _operate_region
_operate_region(S, op, p) ==
  LET has == has_region(S, p)
  IN  IF op = "ADD" /\ ~has THEN add_region(S, p).S
      ELSE IF op = "SUBTRACT" /\ has THEN remove_region(S, p)
      ELSE S

\* Every map tool writing the height tiles
ToolMapType_height(t) == "TYPE_HEIGHT"

\* The map type each map tool writes
ToolMapType(t) ==
  CASE t = "HEIGHT"  -> "TYPE_HEIGHT"
    [] t = "TEXTURE" -> "TYPE_CONTROL"
    [] OTHER         -> "TYPE_COLOR"

\* The switch of operate() without the tests of p_continuous_operation in the
\* map tools' cases
OperateSwitch_always(S, t, op, br, p, rot, p_continuous_operation) ==
  IF t = "REGION"
    THEN [S |-> IF ~p_continuous_operation THEN _operate_region(S, op, p) ELSE S,
          crashed |-> FALSE]
    ELSE _operate_map(S, ToolMapType(t), op, br, p, rot)

\* The switch of operate(): [S, crashed] afterwards
OperateSwitch(S, t, op, br, p, rot, p_continuous_operation) ==
  IF t = "REGION"
    THEN [S |-> IF ~p_continuous_operation THEN _operate_region(S, op, p) ELSE S,
          crashed |-> FALSE]
    ELSE IF p_continuous_operation
      THEN _operate_map(S, ToolMapType(t), op, br, p, rot)
      ELSE [S |-> S, crashed |-> FALSE]

-----------------------------------------------------------------------------
(* The state after construction.  The engine build, and the byte an        *)
(* out-of-buffer read finds on a release engine, are fixed for a run.      *)

HeapBytes == {0, 2}

NoCall == [op |-> "none", arg |-> "none", ret |-> "none"]

\* Brush(): nothing is drawn before set_brush_data
DefaultBrush ==
  [size |-> 0, index |-> 0, opacity |-> 0, gamma |-> 1, height |-> 0, jitter |-> 0,
   image |-> NoImage, img_size |-> Vec2(0, 0), align_to_view |-> FALSE, auto_regions |-> FALSE]

Init ==
  /\ build \in {"debug", "release"}
  /\ heap_byte \in (IF build = "debug" THEN {0} ELSE HeapBytes)
  /\ crashed = FALSE
  /\ region_size = SIZE_1024
  /\ region_offsets = <<>>
  /\ height_maps = <<>>
  /\ control_maps = <<>>
  /\ color_maps = <<>>
  /\ generated = [n \in GeneratedNames |-> Generated_new(FALSE)]
  /\ created = {}
  /\ noise_enabled = FALSE
  /\ noise_blend_near = Float(1)
  /\ noise_blend_far = Float(2)
  /\ surfaces = <<>>
  /\ surfaces_enabled = FALSE
  /\ generated_albedo_textures = Generated_new(FALSE)
  /\ generated_normal_textures = Generated_new(FALSE)
  /\ shader_code = _generate_shader_code(Constructed)
  /\ shader_override = NoShader
  /\ shader_override_enabled = FALSE
  /\ material_shader = "shader"
  /\ shader_calls = {ShaderCall(Constructed, _generate_shader_code(Constructed))}
  /\ golden = ShaderCall(Constructed, _generate_shader_code(Constructed))
  /\ tool = "REGION"
  /\ operation = "ADD"
  /\ brush = DefaultBrush
  /\ operation_position = Pos(0, 0)
  /\ operation_interval = 0
  /\ strokes = 0
  /\ last = NoCall

\* The storage fields take the values of S
SetFields(S) ==
  /\ region_size' = S.region_size
  /\ region_offsets' = S.region_offsets
  /\ height_maps' = S.height_maps
  /\ control_maps' = S.control_maps
  /\ color_maps' = S.color_maps
  /\ generated' = S.generated
  /\ noise_enabled' = S.noise_enabled
  /\ noise_blend_near' = S.noise_blend_near
  /\ noise_blend_far' = S.noise_blend_far
  /\ surfaces' = S.surfaces
  /\ surfaces_enabled' = S.surfaces_enabled
  /\ generated_albedo_textures' = S.generated_albedo_textures
  /\ generated_normal_textures' = S.generated_normal_textures
  /\ shader_code' = S.shader_code
  /\ shader_override' = S.shader_override
  /\ shader_override_enabled' = S.shader_override_enabled
  /\ material_shader' = S.material_shader
  /\ shader_calls' = S.shader_calls
  /\ UNCHANGED <<build, heap_byte>>

\* The fields after a call that generated no shader text to keep
SetStorage(S) == SetFields(S) /\ UNCHANGED <<golden, created>>

Called(op, arg, ret) == last' = [op |-> op, arg |-> arg, ret |-> ret]

-----------------------------------------------------------------------------
(* Public calls on the storage *)

\* The longest of the four lists of the storage S
LongestList(S) ==
  CHOOSE n \in {Len(S.region_offsets), Len(S.height_maps), Len(S.control_maps), Len(S.color_maps)} :
    /\ n >= Len(S.region_offsets) /\ n >= Len(S.height_maps)
    /\ n >= Len(S.control_maps) /\ n >= Len(S.color_maps)

\* add_region, while no list of the storage holds cap entries
AddRegionUpTo(p, cap) ==
  /\ ~crashed
  /\ LongestList(Storage) < cap
  /\ LET r == add_region(Storage, p)
     IN  SetStorage(r.S) /\ Called("add_region", p, r.err)
  /\ UNCHANGED <<crashed, editor_vars>>

AddRegion(p) == AddRegionUpTo(p, MaxRegions)

RemoveRegion(p) ==
  /\ ~crashed
  /\ SetStorage(remove_region(Storage, p))
  /\ Called("remove_region", p, "void")
  /\ UNCHANGED <<crashed, editor_vars>>

SetRegionOffsets(p_array) ==
  /\ ~crashed
  /\ SetStorage(set_region_offsets(Storage, p_array))
  /\ Called("set_region_offsets", p_array, "void")
  /\ UNCHANGED <<crashed, editor_vars>>

SetMapRegion(type, p_region_index, p_image) ==
  /\ ~crashed
  /\ SetStorage(set_map_region(Storage, type, p_region_index, p_image))
  /\ Called("set_map_region", <<type, p_region_index>>, "void")
  /\ UNCHANGED <<crashed, editor_vars>>

GetMapRegion(type, p_region_index) ==
  /\ ~crashed
  /\ Called("get_map_region", <<type, p_region_index>>, get_map_region(Storage, type, p_region_index))
  /\ UNCHANGED <<crashed, editor_vars>>
  /\ SetStorage(Storage)

SetHeightMaps(p_maps) ==
  /\ ~crashed
  /\ SetStorage(set_height_maps(Storage, p_maps))
  /\ Called("set_height_maps", Len(p_maps), "void")
  /\ UNCHANGED <<crashed, editor_vars>>

SetControlMaps(p_maps) ==
  /\ ~crashed
  /\ SetStorage(set_control_maps(Storage, p_maps))
  /\ Called("set_control_maps", Len(p_maps), "void")
  /\ UNCHANGED <<crashed, editor_vars>>

SetColorMaps(p_maps) ==
  /\ ~crashed
  /\ SetStorage(set_color_maps(Storage, p_maps))
  /\ Called("set_color_maps", Len(p_maps), "void")
  /\ UNCHANGED <<crashed, editor_vars>>

SetMaps(type, p_maps) ==
  /\ ~crashed
  /\ SetStorage(set_maps(Storage, type, p_maps))
  /\ Called("set_maps", <<type, Len(p_maps)>>, "void")
  /\ UNCHANGED <<crashed, editor_vars>>

ForceUpdateMaps(type) ==
  /\ ~crashed
  /\ SetStorage(force_update_maps(Storage, type))
  /\ Called("force_update_maps", type, "void")
  /\ UNCHANGED <<crashed, editor_vars>>

SetRegionSize(p_size) ==
  /\ ~crashed
  /\ SetStorage(set_region_size([Storage EXCEPT !.shader_calls = {}], p_size))
  /\ Called("set_region_size", p_size, "void")
  /\ UNCHANGED <<crashed, editor_vars>>

-----------------------------------------------------------------------------
(* Public calls on the material.  Each starts with no shader text          *)
(* generated and may keep one of the texts it generates.                    *)

MaterialEntry == [Storage EXCEPT !.shader_calls = {}]

MaterialCalled(S, op, arg) ==
  /\ SetFields(S)
  /\ golden' \in {golden} \cup S.shader_calls
  /\ UNCHANGED created
  /\ Called(op, arg, "void")
  /\ UNCHANGED editor_vars

SetSurfaceDone(r, p_material, p_index) ==
  /\ Len(r.S.surfaces) <= MaxSurfaces
  /\ crashed' = r.crashed
  /\ MaterialCalled(r.S, "set_surface", p_index)

SetSurface(p_material, p_index) ==
  /\ ~crashed
  /\ SetSurfaceDone(set_surface(MaterialEntry, p_material, p_index), p_material, p_index)

SetSurfaces(p_surfaces) ==
  /\ ~crashed
  /\ MaterialCalled(set_surfaces(MaterialEntry, p_surfaces), "set_surfaces", Len(p_surfaces))
  /\ UNCHANGED crashed

\* A texture of a surface of the list is replaced
SurfaceTextureChanged(p_index, kind, p_texture) ==
  /\ ~crashed
  /\ InRange(surfaces, p_index)
  /\ ~At(surfaces, p_index).null
  /\ MaterialCalled(surface_texture_changed(MaterialEntry, p_index, kind, p_texture),
                    "texture_changed", p_index)
  /\ UNCHANGED crashed

\* A value of a surface of the list is changed
UpdateSurfaceValues ==
  /\ ~crashed
  /\ MaterialCalled(update_surface_values(MaterialEntry), "update_surface_values", "none")
  /\ UNCHANGED crashed

SetNoiseBlendNear(p_near) ==
  /\ ~crashed
  /\ SetStorage(set_noise_blend_near(Storage, p_near).S)
  /\ Called("set_noise_blend_near", p_near, set_noise_blend_near(Storage, p_near).nested)
  /\ UNCHANGED <<crashed, editor_vars>>

SetNoiseBlendFar(p_far) ==
  /\ ~crashed
  /\ SetStorage(set_noise_blend_far(Storage, p_far).S)
  /\ Called("set_noise_blend_far", p_far, set_noise_blend_far(Storage, p_far).nested)
  /\ UNCHANGED <<crashed, editor_vars>>

SetNoiseEnabled(p_enabled) ==
  /\ ~crashed
  /\ MaterialCalled(set_noise_enabled(MaterialEntry, p_enabled), "set_noise_enabled", p_enabled)
  /\ UNCHANGED crashed

SetShaderOverride(p_shader) ==
  /\ ~crashed
  /\ MaterialCalled(set_shader_override(MaterialEntry, p_shader), "set_shader_override", Len(p_shader))
  /\ UNCHANGED crashed

EnableShaderOverride(p_enabled) ==
  /\ ~crashed
  /\ MaterialCalled(enable_shader_override(MaterialEntry, p_enabled), "enable_shader_override", p_enabled)
  /\ UNCHANGED crashed

-----------------------------------------------------------------------------
(* Public calls on the editor *)

SetTool(p_tool) ==
  /\ ~crashed
  /\ tool' = p_tool
  /\ SetStorage(Storage)
  /\ UNCHANGED <<crashed, last, operation, brush, operation_position, operation_interval, strokes>>

SetOperation(p_operation) ==
  /\ ~crashed
  /\ operation' = p_operation
  /\ SetStorage(Storage)
  /\ UNCHANGED <<crashed, last, tool, brush, operation_position, operation_interval, strokes>>

SetBrushData(p_data) ==
  /\ ~crashed
  /\ brush' = Brush_set_data(p_data)
  /\ SetStorage(Storage)
  /\ UNCHANGED <<crashed, last, tool, operation, operation_position, operation_interval, strokes>>

\* randf * PI * jitter, plus the camera direction when the brush is aligned
\* to the view, in quarter turns
StrokeRotation(br, randq, camq) ==
  (IF br.jitter > 0 THEN randq ELSE 0) + (IF br.align_to_view THEN camq ELSE 0)

\* distance_to, squared
DistanceSquared(a, b) == (a.x - b.x) * (a.x - b.x) + (a.z - b.z) * (a.z - b.z)

\* operate() once the switch has answered r; rot is the rotation drawn, cap
\* the number of stroke updates of a run
Operated(p, p_continuous_operation, rot, r, cap) ==
  /\ ~crashed
  /\ (tool # "REGION" /\ p_continuous_operation) => strokes < cap
  /\ LongestList(r.S) <= MaxRegions
  /\ operation_interval' =
       DistanceSquared(p, IF operation_position = Pos(0, 0) THEN p ELSE operation_position)
  /\ operation_position' = p
  /\ strokes' = IF tool # "REGION" /\ p_continuous_operation THEN strokes + 1 ELSE strokes
  /\ SetFields(r.S)
  /\ created' = r.S.created
  /\ UNCHANGED golden
  /\ crashed' = r.crashed
  /\ Called("operate", <<p, p_continuous_operation, rot>>, "void")
  /\ UNCHANGED <<tool, operation, brush>>

\* The storage when operate() is entered
OperateEntry == [Storage EXCEPT !.created = {}]

OperateUpTo(p, randq, camq, p_continuous_operation, cap) ==
  Operated(p, p_continuous_operation, StrokeRotation(brush, randq, camq),
           OperateSwitch(OperateEntry, tool, operation, brush, p,
                         StrokeRotation(brush, randq, camq), p_continuous_operation),
           cap)

Operate(p, randq, camq, p_continuous_operation) ==
  OperateUpTo(p, randq, camq, p_continuous_operation, MaxStrokes)

-----------------------------------------------------------------------------
(* The inputs of the calls *)

\* World positions.  At region size 1024 their offsets are (0,0), (1,0),
\* (8,0) (the edge of the accepted range), (9,0) (outside it), (-8,1) and
\* (0,8); at region size 64 the first four are (0,0), (0,0) (a tie of the
\* rounding), (2,0) and (8,0).
RegionPositions ==
  {Pos(0, 0), Pos(-32, 0), Pos(100, 0), Pos(512, 0), Pos(8192, 0), Pos(9216, 0),
   Pos(-8192, 1024), Pos(0, 8192)}

-----------------------------------------------------------------------------
(* Specifications *)

\* The region directory alone: regions added and removed at RegionPositions,
\* at region size 1024 or 64
NextRegions ==
  \/ \E p \in RegionPositions : AddRegion(p)
  \/ \E p \in RegionPositions : RemoveRegion(p)
  \/ SetRegionSize(SIZE_64)

SpecRegions == Init /\ [][NextRegions]_vars

\* An image loaded from elsewhere: 64 x 64, filled with a colour no new tile has
LoadedTile(type) ==
  CASE type = "TYPE_HEIGHT"  -> Image_create_filled(SIZE_64, SIZE_64, [r |-> HeightOne])
    [] type = "TYPE_CONTROL" -> Image_create_filled(SIZE_64, SIZE_64, [r |-> 1, g |-> 0, b |-> 0])
    [] OTHER                 -> Image_create_filled(SIZE_64, SIZE_64, [r |-> 0, g |-> 0, b |-> 0, a |-> BlendOne])

\* One white pixel: falloff 1 everywhere
FullFalloff == Image_create_filled(1, 1, BlendOne)

\* A 3 x 3 brush that creates the regions it touches
BrushAuto ==
  [name |-> "auto", size |-> 3, index |-> 3, opacity |-> BlendOne, gamma |-> 1,
   height |-> 256, jitter |-> 0, image |-> FullFalloff, align_with_view |-> FALSE,
   automatic_regions |-> TRUE]

\* A one-cell brush that creates no region
BrushPlain ==
  [name |-> "plain", size |-> 1, index |-> 3, opacity |-> BlendOne, gamma |-> 1,
   height |-> 256, jitter |-> 1, image |-> FullFalloff, align_with_view |-> FALSE,
   automatic_regions |-> FALSE]

\* Positions of the editor's calls.  At region size 1024 the 3 x 3 footprint
\* at (511,0,0), in region (0,0), reaches x = 512 in region (1,0); the
\* footprint at (7679,0,0), in region (7,0), reaches x = 7680 in region
\* (8,0), the edge of the accepted range, where (8192,0,0) lies.
EditPositions == {Pos(511, 0), Pos(7679, 0)}

\* The editor on a directory that only add_region, remove_region and the
\* strokes change
NextEditor ==
  \/ \E p \in EditPositions \cup {Pos(8192, 0)} : AddRegion(p)
  \/ \E p \in EditPositions \cup {Pos(8192, 0)} : RemoveRegion(p)
  \/ SetTool("HEIGHT")
  \/ SetBrushData(BrushAuto)
  \/ \E p \in EditPositions, c \in BOOLEAN : Operate(p, 0, 0, c)

SpecEditor == Init /\ [][NextEditor]_vars

\* Positions of the storage calls: offsets (0,0), (8,0) and (-8,1) at region
\* size 1024
StoragePositions == {Pos(0, 0), Pos(8192, 0), Pos(-8192, 1024)}

\* Offset lists handed to set_region_offsets
OffsetArrays == {<<>>, <<Vec2(2, 0)>>}

\* Tile lists handed to set_height_maps, set_control_maps, set_color_maps and
\* set_maps
TileLists(type) == {<<>>, <<LoadedTile(type)>>}

\* Map types handed to the map accessors: TYPE_MAX names no map
MapTypeArgs == {"TYPE_HEIGHT", "TYPE_MAX"}

\* Region indices handed to the map accessors
RegionIndexArgs == {-1, 0, 1, 3}

\* The storage alone: the directory, the tile setters and the map accessors
NextStorage ==
  \/ \E p \in StoragePositions : AddRegion(p)
  \/ \E p \in StoragePositions : RemoveRegion(p)
  \/ \E a \in OffsetArrays : SetRegionOffsets(a)
  \/ \E m \in TileLists("TYPE_HEIGHT") : SetHeightMaps(m)
  \/ \E t \in MapTypeArgs, i \in RegionIndexArgs : SetMapRegion(t, i, LoadedTile(t))
  \/ \E t \in MapTypeArgs, i \in RegionIndexArgs : GetMapRegion(t, i)
  \/ \E t \in MapTypeArgs : ForceUpdateMaps(t)

SpecStorage == Init /\ [][NextStorage]_vars

\* The positions of a row of regions along x at region size 1024, from one
\* offset west of the accepted range to one offset east of it
RowPositions ==
  {Pos(k * SIZE_1024, 0) : k \in (-(REGION_MAP_SIZE \div 2) - 1)..(REGION_MAP_SIZE \div 2 + 1)}

\* A caller fills the row from west to east: p is a position outside the
\* accepted range, one already tried, or the one east of the last region
RowReached(p) ==
  \/ ABS(p.x) > (REGION_MAP_SIZE \div 2) * SIZE_1024
  \/ p.x <= IF region_offsets = <<>> THEN -(REGION_MAP_SIZE \div 2) * SIZE_1024
            ELSE (region_offsets[Len(region_offsets)].x + 1) * SIZE_1024

AddRegionInRow(p) == RowReached(p) /\ AddRegionUpTo(p, MaxRowRegions)

NextRow == \E p \in RowPositions : AddRegionInRow(p)

SpecRow == Init /\ [][NextRow]_vars

\* A falloff image of two pixels: 1 on the left, 0 on the right
HalfFalloff == Image_set_pixelv(Image_create_filled(2, 1, BlendOne), Vec2(1, 0), 0, "debug")

\* A 2 x 2 brush that creates no region: the cells x = 0 sample falloff 1,
\* the cells x = 1 sample falloff 0; its height target is half the maximum
BrushHalf ==
  [name |-> "half", size |-> 2, index |-> 3, opacity |-> BlendOne, gamma |-> 1,
   height |-> 256, jitter |-> 0, image |-> HalfFalloff, align_with_view |-> FALSE,
   automatic_regions |-> FALSE]

\* The same brush with a height target of twice the maximum
BrushHigh == [BrushHalf EXCEPT !.name = "high", !.height = 2 * TERRAIN_MAX_HEIGHT]

\* A control tile painted before: base surface 3, overlay surface 5, blend 1/2
PaintedTile(type) ==
  CASE type = "TYPE_HEIGHT"  -> Image_create_filled(SIZE_1024, SIZE_1024, [r |-> HeightOne \div 4])
    [] type = "TYPE_CONTROL" -> Image_create_filled(SIZE_1024, SIZE_1024, [r |-> 3, g |-> 5, b |-> BlendOne \div 2])
    [] OTHER                 -> Image_create_filled(SIZE_1024, SIZE_1024, [r |-> 0, g |-> 0, b |-> 0, a |-> BlendOne])

\* The position of the strokes: at region size 1024 it lies in region (1,0),
\* and the footprints of size 2 and 3 reach x = 511 in region (0,0)
StrokePositions == {Pos(512, 0)}

\* Strokes of every map tool on the regions (0,0) and (1,0), with the
\* rotation drawn as no turn or a quarter turn
NextStroke ==
  \/ \E p \in {Pos(0, 0), Pos(1024, 0)} : AddRegion(p)
  \/ \E t \in {"HEIGHT", "TEXTURE", "COLOR"} : SetTool(t)
  \/ \E b \in {BrushHalf, BrushPlain, BrushAuto} : SetBrushData(b)
  \/ \E p \in StrokePositions, q \in {0, 1} : Operate(p, q, 0, TRUE)

SpecStroke == Init /\ [][NextStroke]_vars

\* Height and texture strokes in the middle of region (0,0), on its new
\* tiles or on tiles painted before
NextPaint ==
  \/ AddRegion(Pos(0, 0))
  \/ \E t \in {"TYPE_HEIGHT", "TYPE_CONTROL"} : SetMapRegion(t, 0, PaintedTile(t))
  \/ \E t \in {"HEIGHT", "TEXTURE"} : SetTool(t)
  \/ \E op \in {"ADD", "SUBTRACT", "MULTIPLY", "REPLACE"} : SetOperation(op)
  \/ \E b \in {BrushHalf, BrushHigh} : SetBrushData(b)
  \/ Operate(Pos(0, 0), 0, 0, TRUE)

SpecPaint == Init /\ [][NextPaint]_vars

\* Textures of two sizes
SmallTexture == [w |-> 512, h |-> 512]

LargeTexture == [w |-> 1024, h |-> 1024]

\* The surfaces handed to set_surface
SurfaceArgs == {NoSurface, Surface(SmallTexture, NoTexture), Surface(LargeTexture, SmallTexture)}

\* A shader written by the user
CustomShader == <<"custom">>

\* The calls on the surfaces and their textures
NextSurfaces ==
  \/ \E m \in SurfaceArgs, i \in 0..MaxSurfaces : SetSurface(m, i)
  \/ SetSurfaces(<<>>)
  \/ \E i \in 0..(MaxSurfaces - 1), kind \in {"albedo", "normal"}, t \in {NoTexture, SmallTexture, LargeTexture} :
       SurfaceTextureChanged(i, kind, t)

SpecSurfaces == Init /\ [][NextSurfaces]_vars

\* The calls that generate shader text, with the calls that change the state
\* the generator can read
NextShader ==
  \/ AddRegion(Pos(0, 0))
  \/ SetRegionSize(SIZE_64)
  \/ \E m \in {Surface(NoTexture, NoTexture), Surface(SmallTexture, NoTexture)} : SetSurface(m, 0)
  \/ \E b \in BOOLEAN : SetNoiseEnabled(b)
  \/ SetShaderOverride(CustomShader)
  \/ \E b \in BOOLEAN : EnableShaderOverride(b)

SpecShader == Init /\ [][NextShader]_vars

\* The events on the material: the region size, the textures and values of
\* one surface, the override switch and the noise switch
NextTriggers ==
  \/ \E p_size \in {SIZE_64, SIZE_1024} : SetRegionSize(p_size)
  \/ SetSurface(Surface(SmallTexture, NoTexture), 0)
  \/ \E t \in {SmallTexture, LargeTexture} : SurfaceTextureChanged(0, "albedo", t)
  \/ UpdateSurfaceValues
  \/ \E b \in BOOLEAN : SetNoiseEnabled(b)
  \/ \E b \in BOOLEAN : EnableShaderOverride(b)

SpecTriggers == Init /\ [][NextTriggers]_vars

\* One stroke of several updates, at two positions of region (0,0), with
\* calls that are no stroke update between them: the brush, of jitter 1, is
\* set before the first update, and every update draws no turn or a quarter
\* turn
NextJitter ==
  \/ AddRegion(Pos(0, 0))
  \/ \E t \in {"HEIGHT", "TEXTURE", "COLOR"} : SetTool(t)
  \/ strokes = 0 /\ SetBrushData(BrushPlain)
  \/ \E p \in {Pos(0, 0), Pos(3, 0)}, q \in {0, 1}, c \in BOOLEAN :
       OperateUpTo(p, q, 0, c, MaxDrawn)

SpecJitter == Init /\ [][NextJitter]_vars

\* The floats handed to the noise blend setters
BlendArgs == {Float(v) : v \in 0..MaxBlend} \cup {NaN}

\* The two noise blend setters
NextBlend ==
  \/ \E f \in BlendArgs : SetNoiseBlendNear(f)
  \/ \E f \in BlendArgs : SetNoiseBlendFar(f)

SpecBlend == Init /\ [][NextBlend]_vars

\* The tile lists alone: lists of no tile and of one tile handed to the three
\* list setters, on a storage of up to two regions
NextLists ==
  \/ \E p \in {Pos(0, 0), Pos(1024, 0)} : AddRegion(p)
  \/ \E t \in MapTypes : \E m \in TileLists(t) : SetMaps(t, m)

SpecLists == Init /\ [][NextLists]_vars

\* A 3 x 3 brush that creates no region
BrushWide == [BrushAuto EXCEPT !.name = "wide", !.automatic_regions = FALSE]

\* Strokes at the edge of the accepted range: the 3 x 3 footprint at
\* (7679,0,0), in region (7,0), reaches x = 7680 in offset (8,0).  Region
\* (-8,1), where (-8192,0,1024) lies, has the region-map pixel that the lookup
\* of offset (8,0) reads on a release engine.
\* At the corner (-8704,0,7679), in region (-8,7), the footprint reaches
\* x = -8705 in offset (-9,7), which add_region refuses, and z = 7680 in
\* offset (-8,8).
EdgePositions == {Pos(7679, 0), Pos(-8704, 7679)}

NextEdge ==
  \/ \E p \in EdgePositions \cup {Pos(-8192, 1024)} : AddRegion(p)
  \/ SetTool("HEIGHT")
  \/ \E b \in {BrushAuto, BrushWide} : SetBrushData(b)
  \/ \E p \in EdgePositions : Operate(p, 0, 0, TRUE)

SpecEdge == Init /\ [][NextEdge]_vars

\* The positions of the region gestures: offsets (0,0), (1,0), (8,0) (the
\* edge of the accepted range) and (9,0) (outside it) at region size 1024
GesturePositions == {Pos(0, 0), Pos(1024, 0), Pos(8192, 0), Pos(9216, 0)}

\* The region tool (the tool after construction) driven by operate()
NextGesture ==
  \/ \E o \in {"ADD", "SUBTRACT"} : SetOperation(o)
  \/ \E p \in GesturePositions, c \in BOOLEAN : Operate(p, 0, 0, c)

SpecGesture == Init /\ [][NextGesture]_vars

\* Every call that changes the storage, and the editor's calls, on one
\* position, while no list holds MaxListed entries
Next ==
  \/ AddRegionUpTo(Pos(0, 0), MaxListed)
  \/ RemoveRegion(Pos(0, 0))
  \/ \E a \in OffsetArrays : SetRegionOffsets(a)
  \/ \E m \in TileLists("TYPE_HEIGHT") : SetHeightMaps(m)
  \/ \E m \in TileLists("TYPE_CONTROL") : SetControlMaps(m)
  \/ \E m \in TileLists("TYPE_COLOR") : SetColorMaps(m)
  \/ \E m \in TileLists("TYPE_COLOR") : SetMaps("TYPE_COLOR", m)
  \/ SetMapRegion("TYPE_HEIGHT", 0, LoadedTile("TYPE_HEIGHT"))
  \/ SetTool("HEIGHT")
  \/ SetBrushData(BrushPlain)
  \/ \E c \in BOOLEAN : Operate(Pos(0, 0), 1, 0, c)

Spec == Init /\ [][Next]_vars

-----------------------------------------------------------------------------
(* Claims *)

\* The index of the first entry of region_offsets equal to the offset of p,
\* -1 when there is none: what the directory holds at p
ScanIndex(offsets, ofs) ==
  IF \E i \in 1..Len(offsets) : offsets[i] = ofs
    THEN (CHOOSE i \in 1..Len(offsets) : offsets[i] = ofs /\ \A j \in 1..(i - 1) : offsets[j] # ofs) - 1
    ELSE -1

Directory == <<region_offsets, height_maps, control_maps, color_maps>>

\* C1: after any sequence of add_region, remove_region, set_region_offsets,
\* set_height_maps, set_control_maps, set_color_maps, set_maps, set_map_region
\* and operate, the height, control and colour tile lists and the region-offset
\* list all have the same length.
C1_EqualLengths ==
  /\ Len(height_maps) = Len(region_offsets)
  /\ Len(control_maps) = Len(region_offsets)
  /\ Len(color_maps) = Len(region_offsets)

\* C2: no two entries of the region-offset list are equal, after any sequence
\* of add_region, remove_region and strokes that create regions, the
\* positions at the edge of the accepted range included.
C2_NoDuplicateOffsets ==
  \A i, j \in 1..Len(region_offsets) : i # j => region_offsets[i] # region_offsets[j]

\* C3: add_region(p) twice in a row changes the state at most once: when the
\* first call succeeds, the second fails and leaves the offset list and the
\* three tile lists unchanged.
C3_AddRegionTwice ==
  [][(/\ last.op = "add_region" /\ last.ret = "OK"
      /\ last'.op = "add_region" /\ last'.arg = last.arg)
     => (last'.ret = "FAILED" /\ UNCHANGED Directory)]_vars

\* C4: for every position, the index read from the cached RegionMap image is
\* the index of the first entry of region_offsets equal to the position's
\* offset (-1 when none), with the cache as it is and with it cleared.
C4_CacheEqualsScan ==
  \A p \in RegionPositions :
    LET scan == ScanIndex(region_offsets, _get_offset_from(Storage, p))
        cleared == [Storage EXCEPT !.generated["region_map"] = Generated_clear(@)]
    IN  /\ get_region_index(Storage, p) = scan
        /\ get_region_index(cleared, p) = scan

\* C5: with exactly one region, remove_region(p) changes nothing, whatever p:
\* not the offset list, the three tile lists or the generated caches.
C5_LastRegionKept ==
  [][(last'.op = "remove_region" /\ Len(region_offsets) = 1)
     => UNCHANGED <<Directory, generated>>]_vars

\* C5 witness: remove_region was called at the position of the only region,
\* and the region is still there
C5_Witness ==
  /\ last.op = "remove_region" /\ last.arg = Pos(0, 0)
  /\ region_offsets = <<Vec2(0, 0)>>
  /\ Len(height_maps) = 1 /\ Len(control_maps) = 1 /\ Len(color_maps) = 1

\* C6: with more than one region, remove_region(p) at a position whose region
\* has index i deletes exactly entry i of the offset list and of the three
\* tile lists; the other entries keep their values and their order.
C6_RemoveExactlyOne ==
  [][(last'.op = "remove_region" /\ Len(region_offsets) > 1)
     => LET i == ScanIndex(region_offsets, _get_offset_from(Storage, last'.arg))
        IN  i # -1 =>
              /\ region_offsets' = RemoveAt(region_offsets, i)
              /\ height_maps' = RemoveAt(height_maps, i)
              /\ control_maps' = RemoveAt(control_maps, i)
              /\ color_maps' = RemoveAt(color_maps, i)]_vars

\* x / d rounded to the nearest integer, a tie away from zero (round())
RoundHalfAway(x, d) ==
  IF x >= 0 THEN (2 * x + d) \div (2 * d) ELSE -((d - 2 * x) \div (2 * d))

\* The integer k with k - 1/2 <= x / d < k + 1/2: a tie rounds up
RoundHalfUp(x, d) ==
  CHOOSE k \in -20..20 : 2 * k * d - d <= 2 * x /\ 2 * x < 2 * k * d + d

\* A call of add_region that succeeded appended exactly one region, of offset ofs
AppendedOne(ofs) ==
  /\ region_offsets' = Append(region_offsets, ofs)
  /\ Len(height_maps') = Len(height_maps) + 1
  /\ Len(control_maps') = Len(control_maps) + 1
  /\ Len(color_maps') = Len(color_maps) + 1
  /\ \A i \in 1..Len(height_maps) : height_maps'[i] = height_maps[i]
  /\ \A i \in 1..Len(control_maps) : control_maps'[i] = control_maps[i]
  /\ \A i \in 1..Len(color_maps) : color_maps'[i] = color_maps[i]

\* The scenario of C7 at region size 64: add at (0,0,0), add at (100,0,0),
\* remove at (0,0,0)
C7_Scenario ==
  /\ (region_offsets = <<>> /\ last'.op = "add_region" /\ last'.arg = Pos(0, 0))
       => region_offsets' = <<Vec2(0, 0)>>
  /\ (region_offsets = <<Vec2(0, 0)>> /\ last'.op = "add_region" /\ last'.arg = Pos(100, 0))
       => region_offsets' = <<Vec2(0, 0), Vec2(2, 0)>>
  /\ (region_offsets = <<Vec2(0, 0), Vec2(2, 0)>> /\ last'.op = "remove_region" /\ last'.arg = Pos(0, 0))
       => (region_offsets' = <<Vec2(2, 0)>> /\ Len(height_maps') = 1
           /\ Len(control_maps') = 1 /\ Len(color_maps') = 1)

\* C7 as stated: a successful add_region(p) appends exactly one region, at the
\* end, of offset round(p.x / region_size), round(p.z / region_size); and the
\* scenario at region size 64.
C7_AddAppendsRounded ==
  [][/\ (last'.op = "add_region" /\ last'.ret = "OK")
          => AppendedOne(Vec2(RoundHalfAway(last'.arg.x, region_size),
                              RoundHalfAway(last'.arg.z, region_size)))
     /\ region_size = SIZE_64 => C7_Scenario]_vars

\* C7 amended: the offset is floor(p / region_size + 1/2) per axis, so a tie
\* rounds up (x = -32 at region size 64 gives offset 0); and the scenario.
C7_AddAppendsFloorHalf ==
  [][/\ (last'.op = "add_region" /\ last'.ret = "OK")
          => AppendedOne(Vec2(RoundHalfUp(last'.arg.x, region_size),
                              RoundHalfUp(last'.arg.z, region_size)))
     /\ region_size = SIZE_64 => C7_Scenario]_vars

\* C7 witness: the scenario has run to its end
C7_Witness ==
  /\ region_size = SIZE_64
  /\ last.op = "remove_region" /\ last.arg = Pos(0, 0)
  /\ region_offsets = <<Vec2(2, 0)>>
  /\ Len(height_maps) = 1

\* The offset of p lies outside the span add_region accepts
OutsideSpan(p) ==
  \/ ABS(_get_offset_from(Storage, p).x) > REGION_MAP_SIZE \div 2
  \/ ABS(_get_offset_from(Storage, p).y) > REGION_MAP_SIZE \div 2

\* C8: the accepted regions never have more than REGION_MAP_SIZE distinct
\* offset.x values, nor more than REGION_MAP_SIZE distinct offset.y values;
\* and add_region at an offset outside the accepted span fails and leaves the
\* directory and the caches unchanged.
C8_AxisCapacity ==
  [][last'.op = "add_region" =>
       /\ Cardinality({region_offsets'[i].x : i \in 1..Len(region_offsets')}) <= REGION_MAP_SIZE
       /\ Cardinality({region_offsets'[i].y : i \in 1..Len(region_offsets')}) <= REGION_MAP_SIZE
       /\ OutsideSpan(last'.arg) =>
            (last'.ret = "FAILED" /\ UNCHANGED <<Directory, generated>>)]_vars

\* The generated cache of each map type
GeneratedOf(type) ==
  CASE type = "TYPE_HEIGHT"  -> generated["height_maps"]
    [] type = "TYPE_CONTROL" -> generated["control_maps"]
    [] OTHER                 -> generated["color_maps"]

\* C9: between public calls, a generated cache of a map type that is clean
\* was built from the current tile list of that type; so set_map_region at a
\* valid index leaves the cache of that type dirty or rebuilt.
C9_CleanCacheCurrent ==
  ~crashed =>
    \A type \in MapTypes :
      ~GeneratedOf(type).dirty => GeneratedOf(type).layers = MapsOf(Storage, type)

\* The index is no index of the list the map type names
BadIndex(arg) == ~(arg[1] \in MapTypes /\ InRange(MapsOf(Storage, arg[1]), arg[2]))

\* C10: remove_region at a position that holds no region, with more than one
\* region present, and get_map_region and set_map_region with an index that
\* is out of range, leave the offset list, the three tile lists and the
\* generated caches unchanged; get_map_region then returns the null tile.
C10_NotFoundNoOp ==
  [][/\ (/\ last'.op = "remove_region" /\ Len(region_offsets) > 1
          /\ ScanIndex(region_offsets, _get_offset_from(Storage, last'.arg)) = -1)
          => UNCHANGED <<Directory, generated>>
     /\ (last'.op = "set_map_region" /\ BadIndex(last'.arg))
          => UNCHANGED <<Directory, generated>>
     /\ (last'.op = "get_map_region" /\ BadIndex(last'.arg))
          => (last'.ret = NoImage /\ UNCHANGED <<Directory, generated>>)]_vars

\* The step is a call of operate() that ran _operate_map (a map tool, a
\* continuous update)
StrokeStep ==
  /\ last'.op = "operate" /\ last'.arg[2]
  /\ tool # "REGION"
  /\ strokes' = strokes + 1

\* C11: a map-tool stroke update whose centre resolves to no region changes
\* nothing, also with automatic region creation: no region is created, no
\* tile changes and no generated cache is cleared.
C11_NoCentreNoOp ==
  [][(StrokeStep /\ get_region_index(Storage, last'.arg[1]) = -1)
       => UNCHANGED <<Directory, generated, crashed>>]_vars

\* C11 witness: a stroke with automatic region creation was made at a centre
\* without a region, next to a region that exists
C11_Witness ==
  /\ last.op = "operate" /\ last.arg = <<Pos(7679, 0), TRUE, 0>>
  /\ strokes = 1 /\ tool = "HEIGHT" /\ brush.auto_regions
  /\ region_offsets = <<Vec2(0, 0)>>
  /\ get_region_index(Storage, Pos(7679, 0)) = -1

\* The step is a stroke update (StrokeStep) whose centre has a region.  The
\* definitions below describe that step: its brush grid, and for a grid cell
\* c = <<x, y>> its world position, the tile it falls in and its pixel.
StrokeInRegion == StrokeStep /\ get_region_index(Storage, last'.arg[1]) # -1

StrokeGrid == (0..(brush.size - 1)) \X (0..(brush.size - 1))

CellPosition(c) ==
  Pos(last'.arg[1].x + c[1] - brush.size \div 2, last'.arg[1].z + c[2] - brush.size \div 2)

\* The index, after the step, of the region the cell lies in (-1: none)
CellTile(c) == ScanIndex(region_offsets', _get_offset_from(Storage, CellPosition(c)))

\* The offset in the tile's buffer of the cell's pixel
CellKey(c) ==
  MapPixelPosition(CellPosition(c), region_size).y * region_size
    + MapPixelPosition(CellPosition(c), region_size).x

\* The tiles of the written map type before and after the step
StrokeMaps == MapsOf(Storage, ToolMapType(tool))

StrokeMapsAfter ==
  CASE tool = "HEIGHT"  -> height_maps'
    [] tool = "TEXTURE" -> control_maps'
    [] OTHER            -> color_maps'

\* The cell's pixel has been written
CellWritten(c) ==
  /\ CellTile(c) # -1 /\ CellTile(c) < Len(StrokeMapsAfter)
  /\ CellKey(c) \in DOMAIN At(StrokeMapsAfter, CellTile(c)).px

\* The cell's region is absent and the brush creates no region
CellAbsentNoAuto(c) ==
  /\ ScanIndex(region_offsets, _get_offset_from(Storage, CellPosition(c))) = -1
  /\ ~brush.auto_regions

\* The cell's region is absent and is not created: the brush creates no
\* region, or add_region refuses the position
CellAbsent(c) ==
  /\ ScanIndex(region_offsets, _get_offset_from(Storage, CellPosition(c))) = -1
  /\ ~brush.auto_regions \/ OutsideSpan(CellPosition(c))

\* The cell's rotated mask coordinate falls outside the falloff image
CellDiscarded(c) ==
  ~_is_in_bounds(BrushPixelPosition(c[1], c[2], brush.size, last'.arg[3], brush.img_size),
                 brush.img_size)

\* The pixels of tile i (0-based, after the step) written by the step
NewPixels(i) ==
  DOMAIN At(StrokeMapsAfter, i).px
    \ (IF i < Len(StrokeMaps) THEN DOMAIN At(StrokeMaps, i).px ELSE {})

\* Only the tiles of the written type change, and in them only pixels of
\* grid cells that are not in Skipped
OnlyGridWritten(Skipped) ==
  /\ \A i \in 0..(Len(StrokeMapsAfter) - 1) :
       NewPixels(i) \subseteq {CellKey(c) : c \in {d \in StrokeGrid \ Skipped : CellTile(d) = i}}
  /\ tool # "HEIGHT" => \A i \in 1..Len(height_maps) : height_maps'[i] = height_maps[i]
  /\ tool # "TEXTURE" => \A i \in 1..Len(control_maps) : control_maps'[i] = control_maps[i]
  /\ tool # "COLOR" => \A i \in 1..Len(color_maps) : color_maps'[i] = color_maps[i]

PixelAt(img, k) == IF k \in DOMAIN img.px THEN img.px[k] ELSE img.fill

\* The falloff sample of the cell
CellFalloff(c) ==
  Image_get_pixelv(brush.image,
                   BrushPixelPosition(c[1], c[2], brush.size, last'.arg[3], brush.img_size),
                   0, 0, build)

\* The cell's pixel before and after the step
CellPixel(c) == PixelAt(At(StrokeMaps, CellTile(c)), CellKey(c))

CellPixelAfter(c) == PixelAt(At(StrokeMapsAfter, CellTile(c)), CellKey(c))

\* The brush height target as a fraction of TERRAIN_MAX_HEIGHT, in 1 / HeightOne
HeightTarget == (brush.height * HeightOne) \div TERRAIN_MAX_HEIGHT

\* C13: in a HEIGHT stroke with operation REPLACE and gamma 1, a footprint
\* cell whose falloff sample is 1 gets the brush height target clamped to
\* [0, 1], and a cell whose falloff sample is 0 keeps its height.
C13_ReplaceHeight ==
  [][(StrokeInRegion /\ tool = "HEIGHT" /\ operation = "REPLACE" /\ brush.gamma = 1)
       => \A c \in StrokeGrid :
            (~CellAbsent(c) /\ ~CellDiscarded(c)) =>
              /\ CellFalloff(c) = BlendOne =>
                   CellPixelAfter(c).r = CLAMP(HeightTarget, 0, HeightOne)
              /\ CellFalloff(c) = 0 => CellPixelAfter(c).r = CellPixel(c).r]_vars

\* C13 witness: a REPLACE stroke with a target of twice the maximum on a
\* tile of height 1/4: the cell of falloff 1 holds 1, the cell of falloff 0
\* still holds 1/4
C13_Witness ==
  /\ last.op = "operate" /\ strokes = 1
  /\ tool = "HEIGHT" /\ operation = "REPLACE" /\ brush.height = 2 * TERRAIN_MAX_HEIGHT
  /\ Len(height_maps) = 1
  /\ height_maps[1].fill.r = HeightOne \div 4
  /\ PixelAt(height_maps[1], 511 * SIZE_1024 + 511).r = HeightOne
  /\ (511 * SIZE_1024 + 512) \in DOMAIN height_maps[1].px
  /\ PixelAt(height_maps[1], 511 * SIZE_1024 + 512).r = HeightOne \div 4

\* C14: in a TEXTURE stroke with operation ADD, a footprint cell with alpha
\* at least 0.1 whose control pixel has the brush's surface index as its base
\* index gets blend factor 0 and keeps its base and overlay indices.
C14_NoSelfOverlay ==
  [][(StrokeInRegion /\ tool = "TEXTURE" /\ operation = "ADD")
       => \A c \in StrokeGrid :
            (/\ ~CellAbsent(c) /\ ~CellDiscarded(c)
             /\ 10 * PowAlpha(CellFalloff(c), brush.gamma) >= BlendOne
             /\ CellPixel(c).r = brush.index)
            => /\ CellPixelAfter(c).b = 0
               /\ CellPixelAfter(c).r = CellPixel(c).r
               /\ CellPixelAfter(c).g = CellPixel(c).g]_vars

\* C14 witness: an ADD stroke of surface 3 on a tile of base 3, overlay 5 and
\* blend 1/2: the cell of falloff 1 holds base 3, overlay 5 and blend 0
C14_Witness ==
  /\ last.op = "operate" /\ strokes = 1
  /\ tool = "TEXTURE" /\ operation = "ADD" /\ brush.index = 3
  /\ Len(control_maps) = 1
  /\ control_maps[1].fill = [r |-> 3, g |-> 5, b |-> BlendOne \div 2]
  /\ (511 * SIZE_1024 + 511) \in DOMAIN control_maps[1].px
  /\ PixelAt(control_maps[1], 511 * SIZE_1024 + 511) = [r |-> 3, g |-> 5, b |-> 0]

\* A step of operate() with the REGION tool selected
RegionStep(p_continuous_operation) ==
  /\ tool = "REGION" /\ UNCHANGED <<tool, operation, brush>>
  /\ last'.op = "operate" /\ last'.arg[2] = p_continuous_operation

GestureOffset == _get_offset_from(Storage, last'.arg[1])

\* C15: with the REGION tool, a non-continuous ADD at a position with no
\* region creates one there, a non-continuous SUBTRACT at a position with a
\* region removes it, and a continuous update leaves the directory unchanged.
\* The claim is read with the limits the directory states elsewhere: the
\* position lies in the accepted span, and the last region is never removed.
C15_RegionGesture ==
  [][/\ (/\ RegionStep(FALSE) /\ operation = "ADD"
          /\ ~OutsideSpan(last'.arg[1])
          /\ ScanIndex(region_offsets, GestureOffset) = -1)
          => ScanIndex(region_offsets', GestureOffset) # -1
     /\ (/\ RegionStep(FALSE) /\ operation = "SUBTRACT"
          /\ Len(region_offsets) > 1
          /\ ScanIndex(region_offsets, GestureOffset) # -1)
          => Len(region_offsets') = Len(region_offsets) - 1
     /\ RegionStep(TRUE) => UNCHANGED Directory]_vars

\* A step of operate(), whatever the tool
OperateStep(p_continuous_operation) ==
  /\ UNCHANGED <<tool, operation, brush>>
  /\ last'.op = "operate" /\ last'.arg[2] = p_continuous_operation

\* C16: the operate() call with is_continuous = false resets the last-position
\* tracker: the interval computed on that call is 0, wherever the previous
\* stroke ended.
C16_FirstCallResets ==
  [][OperateStep(FALSE) => operation_interval' = 0]_vars

\* A tile of the current region size
TileOfRegionSize(img) == Image_is_valid(img) /\ img.w = region_size /\ img.h = region_size

\* C17: after any sequence of set_region_size and add_region calls, every
\* height, control and colour tile of the directory is region_size by
\* region_size pixels for the current region_size.
C17_TilesFollowRegionSize ==
  /\ \A i \in 1..Len(height_maps) : TileOfRegionSize(height_maps[i])
  /\ \A i \in 1..Len(control_maps) : TileOfRegionSize(control_maps[i])
  /\ \A i \in 1..Len(color_maps) : TileOfRegionSize(color_maps[i])

\* A step of the texture_changed signal of a surface
TextureChangedStep == last'.op = "texture_changed" /\ UNCHANGED editor_vars /\ surfaces' # surfaces

\* The texture update of the step finds two textures of different sizes
MismatchFound ==
  \/ Cardinality(TextureSizes([surfaces |-> surfaces'], "albedo")) > 1
  \/ Cardinality(TextureSizes([surfaces |-> surfaces'], "normal")) > 1

\* C18: a surface-texture update that finds two albedo textures, or two
\* normal textures, of different sizes leaves the surfaces_enabled flag, the
\* generated albedo and normal arrays and the shader in use as they were
\* before the texture change.
C18_MismatchKeepsState ==
  [][(TextureChangedStep /\ MismatchFound)
       => UNCHANGED <<surfaces_enabled, generated_albedo_textures, generated_normal_textures,
                      shader_code, shader_override, material_shader>>]_vars

\* C19: two calls of the shader generator in states with the same
\* surfaces_enabled, noise_enabled, override_enabled, surface count and region
\* count return the same text.
C19_SameStateSameText ==
  \A c \in shader_calls :
    (/\ c.surfaces_enabled = golden.surfaces_enabled
     /\ c.noise_enabled = golden.noise_enabled
     /\ c.override_enabled = golden.override_enabled
     /\ c.surface_count = golden.surface_count
     /\ c.region_count = golden.region_count)
    => c.code = golden.code

\* C19 witness: a call after set_region_size, in a state like the one of the
\* call kept from before it, with surfaces and noise enabled
C19_Witness ==
  /\ region_size = SIZE_64
  /\ golden.surfaces_enabled /\ golden.noise_enabled
  /\ \E c \in shader_calls :
       /\ c.code = golden.code
       /\ c.surfaces_enabled /\ c.noise_enabled
       /\ c.override_enabled = golden.override_enabled
       /\ c.surface_count = golden.surface_count
       /\ c.region_count = golden.region_count

\* The generated cache of the map type the selected tool writes
StrokeCache ==
  CASE tool = "HEIGHT"  -> "height_maps"
    [] tool = "TEXTURE" -> "control_maps"
    [] OTHER            -> "color_maps"

\* The caches of the two other map types and of the region map keep their
\* handles and their dirty flags over the step
OtherCachesKept ==
  \A n \in {"height_maps", "control_maps", "color_maps", "region_map"} \ {StrokeCache} :
    /\ n \notin created'
    /\ generated'[n].rid = generated[n].rid
    /\ generated'[n].dirty = generated[n].dirty

ChangedPixels(i) ==
  {k \in DOMAIN At(StrokeMapsAfter, i).px :
     \/ i >= Len(StrokeMaps)
     \/ k \notin DOMAIN At(StrokeMaps, i).px
     \/ At(StrokeMaps, i).px[k] # At(StrokeMapsAfter, i).px[k]}

\* C21: every pixel a stroke writes lies in the tile of the region whose
\* offset contains the world position of a footprint cell, at the pixel
\* coordinate of that cell, and that coordinate is inside [0, region_size) on
\* both axes; also across region boundaries and when the stroke creates a
\* region.
C21_WritesInOwnTile ==
  [][StrokeInRegion =>
       /\ \A c \in StrokeGrid :
            _is_in_bounds(MapPixelPosition(CellPosition(c), region_size), Vec2(region_size, region_size))
       /\ \A i \in 0..(Len(StrokeMapsAfter) - 1) : \A k \in ChangedPixels(i) :
            \E c \in StrokeGrid : CellTile(c) = i /\ CellKey(c) = k]_vars

\* C22: with automatic region creation disabled a map-tool stroke leaves the
\* offset list and the lengths of the three tile lists as they were, and
\* writes nothing for the footprint cells that fall in no region.
C22_NoAutoNoDirectoryChange ==
  [][(StrokeStep /\ ~brush.auto_regions)
       => /\ region_offsets' = region_offsets
          /\ Len(height_maps') = Len(height_maps)
          /\ Len(control_maps') = Len(control_maps)
          /\ Len(color_maps') = Len(color_maps)
          /\ \A i \in 0..(Len(StrokeMapsAfter) - 1) : \A k \in ChangedPixels(i) :
               \E c \in StrokeGrid : CellTile(c) = i /\ CellKey(c) = k]_vars

\* add_region refuses the cell's position: the cell has no region and the
\* call answers an error
CellRefused(c) ==
  /\ get_region_index(Storage, CellPosition(c)) = -1
  /\ add_region(Storage, CellPosition(c)).err # "OK"

\* C23: with automatic region creation enabled, a stroke in which add_region
\* fails for a footprint cell skips that cell alone and goes on: it never
\* reads or writes a tile through region index -1, which would dereference
\* the null image that get_map_region answers for that index.
C23_FailedCellSkippedAlone ==
  [][(StrokeInRegion /\ brush.auto_regions /\ \E c \in StrokeGrid : CellRefused(c))
       => ~crashed']_vars

C25_ColorStrokeModifies ==
  [][(StrokeInRegion /\ tool = "COLOR")
       => \A c \in StrokeGrid :
            (/\ ScanIndex(region_offsets, _get_offset_from(Storage, CellPosition(c))) # -1
             /\ ~CellDiscarded(c)
             /\ PowAlpha(CellFalloff(c), brush.gamma) * brush.opacity > 0)
            => CellPixelAfter(c) # CellPixel(c)]_vars

\* C26: Generated::create with an empty source list releases instead of
\* uploading: afterwards the cache has no GPU handle and is dirty; with a
\* non-empty list it has a valid handle and is clean.  Observed at set_maps,
\* which hands its list to create.
C26_CreateReleasesEmpty ==
  [][last'.op = "set_maps"
       => LET g == CASE last'.arg[1] = "TYPE_HEIGHT"  -> generated'["height_maps"]
                     [] last'.arg[1] = "TYPE_CONTROL" -> generated'["control_maps"]
                     [] OTHER                         -> generated'["color_maps"]
              maps == CASE last'.arg[1] = "TYPE_HEIGHT"  -> height_maps'
                        [] last'.arg[1] = "TYPE_CONTROL" -> control_maps'
                        [] OTHER                         -> color_maps'
          IN  IF maps = <<>>
                THEN ~g.rid /\ g.dirty
                ELSE g.rid /\ ~g.dirty /\ g.layers = maps]_vars

\* C26 witness: set_maps with an empty height list on a storage that has a
\* region: the height cache is released, the control cache keeps its handle
C26_Witness ==
  /\ last.op = "set_maps" /\ last.arg = <<"TYPE_HEIGHT", 0>>
  /\ region_offsets # <<>> /\ height_maps = <<>>
  /\ ~generated["height_maps"].rid /\ generated["height_maps"].dirty
  /\ generated["control_maps"].rid /\ ~generated["control_maps"].dirty

\* C27: cache rebuild is lazy: when add_region or a list setter returns, the
\* generated caches the call invalidated are still dirty; they are rebuilt by
\* the next render-affecting read, never as part of the mutating call.
C27_RebuildIsLazy ==
  [][/\ (last'.op = "add_region" /\ last'.ret = "OK")
          => \A n \in {"height_maps", "control_maps", "color_maps", "region_map"} :
               generated'[n].dirty
     /\ (last'.op = "set_maps" /\ last'.arg[1] = "TYPE_HEIGHT")
          => generated'["height_maps"].dirty]_vars

\* The step is a call that rebuilds the surface data
SurfaceRebuildStep ==
  /\ last'.op \in {"set_surface", "set_surfaces", "texture_changed"}
  /\ ~crashed'

\* C28: after every surface rebuild (set_surface, set_surfaces,
\* update_surface_textures), surfaces_enabled is true if and only if at least
\* one configured surface supplies an albedo texture and a non-empty albedo
\* texture array was generated.
C28_EnabledIffAlbedo ==
  [][SurfaceRebuildStep
       => (surfaces_enabled' <=>
             /\ \E i \in 1..Len(surfaces') :
                  ~surfaces'[i].null /\ Texture_is_valid(surfaces'[i].albedo)
             /\ generated_albedo_textures'.rid
             /\ generated_albedo_textures'.layers # <<>>)]_vars

\* The step is one of the events: a region-size change, a surface texture
\* change, a surface value change, an override toggle or a noise toggle
TriggerStep ==
  \/ last'.op = "set_region_size" /\ region_size' # region_size
  \/ TextureChangedStep
  \/ last'.op = "update_surface_values"
  \/ last'.op = "enable_shader_override" /\ shader_override_enabled' # shader_override_enabled
  \/ last'.op = "set_noise_enabled" /\ noise_enabled' # noise_enabled

\* C29: each of these events regenerates the shader text: a region-size
\* change, a surface texture change, a surface value change, an override
\* toggle and a noise toggle.  The generator runs at least once in the call.
C29_EventsRegenerate ==
  [][TriggerStep => shader_calls' # {}]_vars

\* C30: all operate() calls of one stroke use the same brush rotation: a
\* stroke update that follows a stroke update, both at a centre that has a
\* region, draws the rotation of the update before it.
C30_OneRotationPerStroke ==
  [][(/\ StrokeInRegion
      /\ last.op = "operate" /\ last.arg[2]
      /\ get_region_index(Storage, last.arg[1]) # -1)
       => last'.arg[3] = last.arg[3]]_vars

\* C31: for every region offset that add_region accepts, the region-map pixel
\* coordinate offset + REGION_MAP_SIZE / 2 lies inside the REGION_MAP_SIZE by
\* REGION_MAP_SIZE image on both axes, and the region is found again by
\* get_region_index at its place in the list.
C31_AcceptedInsideMap ==
  [][(last'.op = "add_region" /\ last'.ret = "OK")
       => LET uv_offset == _get_offset_from(Storage, last'.arg)
          IN  /\ uv_offset.x + REGION_MAP_SIZE \div 2 \in 0..(REGION_MAP_SIZE - 1)
              /\ uv_offset.y + REGION_MAP_SIZE \div 2 \in 0..(REGION_MAP_SIZE - 1)
              /\ get_region_index([Storage EXCEPT !.region_offsets = region_offsets',
                                                   !.generated = generated'],
                                   last'.arg) = Len(region_offsets') - 1]_vars

\* The step is a call of one of the noise blend setters
BlendStep == last'.op \in {"set_noise_blend_near", "set_noise_blend_far"}

\* noise_blend_near <= noise_blend_far, as floats compare
BlendOrdered(near, far) == ~near.nan /\ ~far.nan /\ near.v <= far.v

\* C32: starting from noise_blend_near <= noise_blend_far, every sequence of
\* set_noise_blend_near and set_noise_blend_far calls with arbitrary
\* arguments keeps noise_blend_near <= noise_blend_far, and each call
\* terminates after at most one nested call of the other setter.
C32_BlendOrdered ==
  [][BlendStep => BlendOrdered(noise_blend_near', noise_blend_far') /\ last'.ret <= 1]_vars

\* C32, amended: a call of either setter with an argument that is a number,
\* while the other bound is a number, leaves noise_blend_near <=
\* noise_blend_far; every call terminates after at most one nested call.
C32_BlendOrderedNumbers ==
  [][BlendStep
       => /\ last'.ret <= 1
          /\ (/\ ~last'.arg.nan
              /\ last'.op = "set_noise_blend_near" => ~noise_blend_far.nan
              /\ last'.op = "set_noise_blend_far" => ~noise_blend_near.nan)
             => BlendOrdered(noise_blend_near', noise_blend_far')]_vars

\* C32 witness: set_noise_blend_near above the far bound has raised the far
\* bound in one nested call
C32_Witness ==
  /\ last.op = "set_noise_blend_near" /\ last.arg = Float(3) /\ last.ret = 1
  /\ noise_blend_near = Float(3) /\ noise_blend_far = Float(3)

\* C33: in every sequence of storage operations, Generated::create is invoked
\* on a cache only while that cache is dirty and holds no valid GPU handle, so
\* no live handle is overwritten without first being freed.
C33_CreateOnlyWhenDirty ==
  /\ \A n \in GeneratedNames : ~generated[n].misused
  /\ ~generated_albedo_textures.misused
  /\ ~generated_normal_textures.misused

\* C33 witness: with a region and a surface in place, turning the noise on
\* has cleared and created the region map and the region blend map again,
\* beside the caches created by the calls before
C33_Witness ==
  /\ last.op = "set_noise_enabled" /\ noise_enabled
  /\ region_offsets # <<>>
  /\ generated["height_maps"].rid /\ generated["region_map"].rid
  /\ generated["region_blend_map"].rid
  /\ generated_albedo_textures.rid

\* C34: whenever no shader override is in effect, after every public storage
\* operation returns, the shader text last pushed to the material was
\* generated from the current values of surfaces_enabled and noise_enabled.
C34_ShaderFollowsFlags ==
  (~crashed /\ ~(shader_override_enabled /\ shader_override # NoShader))
    => /\ material_shader = "shader"
       /\ shader_code = _generate_shader_code(Storage)

\* C35: with the HEIGHT, TEXTURE or COLOR tool selected, a non-continuous
\* operate() call mutates nothing in storage: no tile pixel, region or
\* generated cache changes; only the editor's last-position tracker is
\* updated.
C35_NonContinuousMapCallKeepsStorage ==
  [][(/\ last'.op = "operate" /\ ~last'.arg[2]
      /\ tool \in {"HEIGHT", "TEXTURE", "COLOR"} /\ UNCHANGED <<tool, operation, brush>>)
       => /\ UNCHANGED <<region_size, region_offsets, height_maps, control_maps, color_maps,
                         generated, noise_enabled, material_vars, crashed, strokes>>
          /\ operation_position' = last'.arg[1]]_vars

\* C35 witness: after a stroke update at (3,0,0), a non-continuous call of
\* the TEXTURE tool at (0,0,0): the tracker holds the new position and the
\* distance from the one before
C35_Witness ==
  /\ last.op = "operate" /\ last.arg[1] = Pos(0, 0) /\ ~last.arg[2]
  /\ tool = "TEXTURE" /\ brush.size = 1 /\ strokes = 1
  /\ region_offsets = <<Vec2(0, 0)>>
  /\ operation_position = Pos(0, 0) /\ operation_interval = 9

\* The tiles of the list before the step are in the list after it, unchanged
TilesKept(before, after) ==
  /\ Len(after) >= Len(before)
  /\ \A i \in 1..Len(before) : after[i] = before[i]

\* C36: a map-tool stroke writes pixels only in tiles of its target map type:
\* after a HEIGHT stroke every pixel of every pre-existing control and color
\* tile is unchanged, and likewise for TEXTURE and COLOR strokes with respect
\* to the two other map types, including when the stroke creates regions.
C36_OtherTypesKept ==
  [][StrokeStep
       => /\ tool # "HEIGHT" => TilesKept(height_maps, height_maps')
          /\ tool # "TEXTURE" => TilesKept(control_maps, control_maps')
          /\ tool # "COLOR" => TilesKept(color_maps, color_maps')]_vars

\* C36 witness: a TEXTURE stroke with automatic regions has added region
\* (0,0) beside region (1,0) and has written control pixels in both tiles;
\* the height and color tiles hold no written pixel
C36_Witness ==
  /\ last.op = "operate" /\ last.arg[2] /\ strokes = 1
  /\ tool = "TEXTURE" /\ brush.auto_regions
  /\ region_offsets = <<Vec2(1, 0), Vec2(0, 0)>>
  /\ "height_maps" \in created
  /\ \A i \in 1..2 : /\ control_maps[i].px # <<>>
                       /\ height_maps[i].px = <<>>
                       /\ color_maps[i].px = <<>>

=============================================================================
